---- MODULE Spec2Model ----
(***************************************************************************)
(* The keep-warm conversion worker of services/docling_worker/convert.py:  *)
(* run_worker_loop reads one command line at a time and, for a job, calls  *)
(* run_conversion, which drives the job through its stages, emits progress *)
(* events on standard output and persists exports/<docId>/meta.json.       *)
(*                                                                         *)
(* The file system and the engine are the environment.  Init fixes the     *)
(* content of the gate configuration file.  The command lines are chosen   *)
(* freely at every read, the engine finds any page count from 1 to         *)
(* MaxPages in a document, and for the input bad.pdf the engine stack may  *)
(* raise at every stage.                                                   *)
(***************************************************************************)
EXTENDS Integers, Sequences, FiniteSets, TLC

\* ------------------------------------------------------------------ bounds
\* lines the worker reads before end of input
MaxLines == 2
\* job commands the worker accepts
MaxJobs == 1
\* largest page count of an input document
MaxPages == 2
\* characters on every page of the input documents
PageChars == 2

\* ------------------------------------------------------- values and inputs
Null == "null"

ENGINE_DOCLING == "docling"
ENGINE_PYMUPDF4LLM == "pymupdf4llm"
ENGINE_PYMUPDF_TEXT == "pymupdf_text"

JobIds == {"j1"}
DocIds == {"d1"}
DataDirs == {"data"}

\* The input files of the environment.  gone.pdf does not exist.
TextPdf == "text.pdf"
BadPdf == "bad.pdf"
ScanPdf == "scan.pdf"
NotesTxt == "notes.txt"
GonePdf == "gone.pdf"
Inputs == {TextPdf, BadPdf, ScanPdf, NotesTxt, GonePdf}

\* The gate configuration paths a job may name.  nogates.json does not exist.
GatesJson == "gates.json"
NoGatesJson == "nogates.json"
GatePaths == {GatesJson, NoGatesJson}

\* The docling configuration of the environment declares one profile.
DefaultProfile == "digital-fast"
Profiles == {DefaultProfile}
ProfileOverrides == {Null, "ghost"}

EngineFields == {Null, ENGINE_PYMUPDF_TEXT, ENGINE_PYMUPDF4LLM}

\* ------------------------------------------------------ gate configuration
\* hasEnabled: the rule object has an "enabled" key
Rule(code, enabled, metric, op, threshold, severity) ==
    [code |-> code, hasEnabled |-> TRUE, enabled |-> enabled, metric |-> metric,
     op |-> op, threshold |-> threshold, severity |-> severity]

\* a rule object without "enabled" key
RuleWithoutEnabled(code, metric, op, threshold, severity) ==
    [Rule(code, FALSE, metric, op, threshold, severity) EXCEPT !.hasEnabled = FALSE]

GateConfig(hasLimits, hasMaxPages, maxPages, hasTailKb, tailKb, gates) ==
    [hasLimits |-> hasLimits, hasMaxPages |-> hasMaxPages, maxPages |-> maxPages,
     hasTailKb |-> hasTailKb, stderrTailKb |-> tailKb, gates |-> gates]

\* ceiling of one page; the FAIL rule passes for every document with text
CeilingCfg ==
    GateConfig(TRUE, TRUE, 1, TRUE, 64,
               << Rule("MIN_CHARS", TRUE, "textChars", ">", 0, "FAIL"),
                  Rule("WARN_PAGES", TRUE, "pages", "<", 2, "WARN"),
                  Rule("OFF_RULE", FALSE, "pages", "~=", 0, "FAIL") >>)
\* ceiling switched off (maxPages 0); a FAIL rule limits the pages instead
RuleCfg ==
    GateConfig(TRUE, TRUE, 0, TRUE, 64,
               << Rule("MAX_ONE_PAGE", TRUE, "pages", "<=", 1, "FAIL"),
                  Rule("NO_TABLES", TRUE, "tables", "==", 0, "FAIL") >>)
\* a configuration that loads but has no limits section and no rules: {}
BareCfg == GateConfig(FALSE, FALSE, 0, FALSE, 0, << >>)
\* an enabled rule with an unsupported operator
BadOpCfg ==
    GateConfig(TRUE, FALSE, 0, TRUE, 64,
               << Rule("BROKEN", TRUE, "pages", "~=", 1, "FAIL") >>)

GateConfigs == {CeilingCfg, RuleCfg, BareCfg, BadOpCfg}

\* config.get("limits", {}).get("maxPages", 0)
LimitMaxPages(config) ==
    IF config.hasLimits /\ config.hasMaxPages THEN config.maxPages ELSE 0

\* config["limits"]["stderrTailKb"] raises KeyError when a key is missing
HasStderrTailKb(config) == config.hasLimits /\ config.hasTailKb

\* ---------------------------------------------------------- gate evaluator
SupportedOps == {">", ">=", "<", "<=", "==", "!="}

\* a rule that is on unless it says otherwise
GateEnabledByDefault(gate) == IF gate.hasEnabled THEN gate.enabled ELSE TRUE

\* gate.get("enabled", False)
GateEnabled(gate) == IF gate.hasEnabled THEN gate.enabled ELSE FALSE

\* a comparison in which >= and <= leave the threshold out
_compare_exclusive(actual, op, expected) ==
    CASE op = ">" -> actual > expected
      [] op = ">=" -> actual > expected
      [] op = "<" -> actual < expected
      [] op = "<=" -> actual < expected
      [] op = "==" -> actual = expected
      [] op = "!=" -> actual # expected
      [] OTHER -> FALSE

\* the six comparisons; for any other op the function raises ValueError, which
\* EvalFrom models, and the value here is never used
_compare(actual, op, expected) ==
    CASE op = ">" -> actual > expected
      [] op = ">=" -> actual >= expected
      [] op = "<" -> actual < expected
      [] op = "<=" -> actual <= expected
      [] op = "==" -> actual = expected
      [] op = "!=" -> actual # expected
      [] OTHER -> FALSE

\* metrics.get(metric_name, 0)
MetricValue(metrics, name) ==
    IF name \in DOMAIN metrics THEN metrics[name] ELSE 0

EvaluatedEntry(gate, metrics) ==
    [code |-> gate.code, severity |-> gate.severity, metric |-> gate.metric,
     op |-> gate.op, threshold |-> gate.threshold,
     actual |-> MetricValue(metrics, gate.metric),
     passed |-> _compare(MetricValue(metrics, gate.metric), gate.op, gate.threshold)]

FailedEntry(gate, metrics) ==
    [code |-> gate.code, actual |-> MetricValue(metrics, gate.metric),
     expectedOp |-> gate.op, expected |-> gate.threshold]

\* a verdict in which a false comparison fails the job whatever the severity
FailsAnySeverity(gate, passed) == ~passed

\* if not passed and gate.get("severity") == "FAIL"
Fails(gate, passed) == ~passed /\ gate.severity = "FAIL"

RECURSIVE EvalFrom(_, _, _, _, _)
EvalFrom(gates, i, metrics, failed, evaluated) ==
    IF i > Len(gates)
    THEN [raised |-> FALSE, passed |-> (Len(failed) = 0),
          failed |-> failed, evaluated |-> evaluated]
    ELSE LET gate == gates[i] IN
         IF ~GateEnabled(gate)
         THEN EvalFrom(gates, i + 1, metrics, failed, evaluated)
         ELSE IF gate.op \notin SupportedOps
         THEN [raised |-> TRUE, passed |-> FALSE, failed |-> << >>, evaluated |-> << >>]
         ELSE LET e == EvaluatedEntry(gate, metrics) IN
              EvalFrom(gates, i + 1, metrics,
                       IF Fails(gate, e.passed)
                       THEN Append(failed, FailedEntry(gate, metrics))
                       ELSE failed,
                       Append(evaluated, e))

evaluate_gates(metrics, config) ==
    EvalFrom(config.gates, 1, metrics, << >>, << >>)

\* ------------------------------------------------------------ command lines
\* A line is known by what line.strip() and json.loads make of it: blank,
\* unparsable ("not json"), a JSON value that is no object ([1], 7, "x"), or an
\* object with its fields (Null: the key is absent).
Line(kind, type, requestId, jobId, docId, input, dataDir, gates, engine, profile) ==
    [kind |-> kind, type |-> type, requestId |-> requestId, jobId |-> jobId,
     docId |-> docId, input |-> input, dataDir |-> dataDir, gates |-> gates,
     engine |-> engine, profile |-> profile]

PlainLine(kind, type, requestId) ==
    Line(kind, type, requestId, Null, Null, Null, Null, Null, Null, Null)

BlankLines == {PlainLine("blank", Null, Null)}
GarbageLines == {PlainLine("garbage", Null, Null)}
ValueLines == {PlainLine("value", Null, Null)}
ShutdownLines == {PlainLine("object", "shutdown", Null)}
CapabilitiesLines == {PlainLine("object", "capabilities", r) : r \in {"r1"}}
OtherTypeLines == {PlainLine("object", t, Null) : t \in {Null, "ping"}}

\* job commands with every required field; a profile override comes with the
\* docling engine, the only one that reads it
ValidJobLines ==
    {l \in {Line("object", "job", Null, j, d, i, dd, g, e, p) :
               j \in JobIds, d \in DocIds, i \in Inputs, dd \in DataDirs,
               g \in GatePaths, e \in EngineFields, p \in ProfileOverrides} :
        l.engine # Null => l.profile = Null}

RequiredFields == {"jobId", "docId", "input", "dataDir", "gates"}

\* job commands with one required field, jobId and docId, or all of them
\* absent (Null) or empty ("")
DamagedJobLines ==
    {[f \in DOMAIN b |-> IF f \in fs THEN v ELSE b[f]] :
        b \in {l \in ValidJobLines :
                  /\ l.docId = "d1" /\ l.input = TextPdf /\ l.gates = GatesJson
                  /\ l.engine = Null /\ l.profile = Null},
        fs \in {{f} : f \in RequiredFields} \cup {{"jobId", "docId"}, RequiredFields},
        v \in {Null, ""}}

JobLines == ValidJobLines \cup DamagedJobLines

\* Python truthiness of a field value: None and "" are falsy
Falsy(v) == v \in {Null, ""}

\* str(message.get("jobId") or message.get("docId") or "")
JobIdOf(line) ==
    IF ~Falsy(line.jobId) THEN line.jobId
    ELSE IF ~Falsy(line.docId) THEN line.docId
    ELSE ""

\* a required-field test that forgets the gates path
JobFieldsMissingButGates(line) ==
    \/ Falsy(JobIdOf(line))
    \/ Falsy(line.input)
    \/ Falsy(line.docId)
    \/ Falsy(line.dataDir)

\* the required-field test of the worker loop
JobFieldsMissing(line) ==
    \/ Falsy(JobIdOf(line))
    \/ Falsy(line.input)
    \/ Falsy(line.docId)
    \/ Falsy(line.dataDir)
    \/ Falsy(line.gates)

\* ------------------------------------------------------------------- paths
Path(dir, doc, file) == [dir |-> dir, doc |-> doc, file |-> file]
NoPath == Path(Null, Null, Null)

\* os.path.join(data_dir, "exports", doc_id, "meta.json")
MetaPath(data_dir, doc_id) == Path(data_dir, doc_id, "meta.json")

\* ------------------------------------------------------------------ events
\* One line of standard output.  json is FALSE for a line that is no JSON value.
Out(json, event, stage, progress, jobId, exitCode, metaPath, requestId, lastJob, prewarm, seq) ==
    [json |-> json, event |-> event, stage |-> stage, progress |-> progress,
     jobId |-> jobId, exitCode |-> exitCode, metaPath |-> metaPath,
     requestId |-> requestId, lastJob |-> lastJob, prewarm |-> prewarm, seq |-> seq]

\* seq is not part of the payload: it numbers the accepted job that was running
\* when the line was printed (0: none)
emit_progress(stage, progress, job_id, seq) ==
    Out(TRUE, "progress", stage, progress, job_id, -1, NoPath, Null, Null, FALSE, seq)

\* a ready event that always carries a prewarm summary
emit_ready_with_summary(prewarmed) ==
    Out(TRUE, "ready", Null, -1, Null, -1, NoPath, Null, Null, TRUE, 0)

emit_ready(prewarmed) ==
    Out(TRUE, "ready", Null, -1, Null, -1, NoPath, Null, Null, prewarmed, 0)

emit_result(job_id, exit_code, meta_path, seq) ==
    Out(TRUE, "result", Null, -1, job_id, exit_code, meta_path, Null, Null, FALSE, seq)

emit_capabilities(requestId, lastJob) ==
    Out(TRUE, "capabilities", Null, -1, Null, -1, NoPath, requestId, lastJob, FALSE, 0)

log_docling_effective(doc_id, seq) ==
    Out(FALSE, "DOCLING_EFFECTIVE", Null, -1, Null, -1, NoPath, Null, doc_id, FALSE, seq)

\* -------------------------------------------------- documents and metrics
Max(a, b) == IF a > b THEN a ELSE b

\* args.input.lower().endswith(".pdf")
EndsWithPdf(input) == input \in {TextPdf, BadPdf, ScanPdf, GonePdf}

\* os.path.getsize / sha256_file succeed
InputReadable(input) == input # GonePdf

\* the first four bytes are %PDF; OSError counts as no
is_probable_pdf(input) == input \in {TextPdf, BadPdf, ScanPdf}

\* ---------------------------------------------------------------- preflight
\* A number with a fraction, as the float of minTextCharsPerPageAvg and of the
\* average: num / den with den > 0.
Fraction(num, den) == [num |-> num, den |-> den]
FractionGeq(a, b) == a.num * b.den >= b.num * a.den

\* preflight.pdfText of the docling configuration
PreflightCfg(enabled, samplePages, minTextChars, minTextCharsPerPageAvg) ==
    [enabled |-> enabled, samplePages |-> samplePages, minTextChars |-> minTextChars,
     minTextCharsPerPageAvg |-> minTextCharsPerPageAvg]

\* A PDF file as preflight sees it: the text of its pages, a sequence of
\* characters each; the message of the exception pypdfium2 raises on it (Null:
\* none); the count of the text operators in its bytes; whether reading the
\* bytes raises.
PdfFile(pages, sampleError, textOps, readRaises) ==
    [pages |-> pages, sampleError |-> sampleError, textOps |-> textOps,
     readRaises |-> readRaises]

PreflightResult(passed, sample_pages, text_chars, text_chars_per_page_avg, error) ==
    [passed |-> passed, sample_pages |-> sample_pages, text_chars |-> text_chars,
     text_chars_per_page_avg |-> text_chars_per_page_avg, error |-> error]

\* sum(1 for char in text if not char.isspace())
count_non_whitespace(text) == Len(SelectSeq(text, LAMBDA char : char # " "))

RECURSIVE SampleFrom(_, _, _)
SampleFrom(pages, index, pages_to_sample) ==
    IF index > pages_to_sample THEN 0
    ELSE count_non_whitespace(pages[index]) + SampleFrom(pages, index + 1, pages_to_sample)

\* sample_pdf_text: the first min(sample_pages, len(pdf)) pages, or an exception
sample_pdf_text(pdf, sample_pages) ==
    LET pages_to_sample == IF sample_pages < Len(pdf.pages) THEN sample_pages
                           ELSE Len(pdf.pages)
    IN  [raised |-> pdf.sampleError # Null,
         error |-> pdf.sampleError,
         total_chars |-> SampleFrom(pdf.pages, 1, pages_to_sample),
         pages_to_sample |-> pages_to_sample]

\* fallback_pdf_text_count: the text operators of the raw bytes, or an exception
fallback_pdf_text_count(pdf) ==
    [raised |-> pdf.readRaises, count |-> pdf.textOps]

\* avg = text_chars / sampled if sampled > 0 else 0;
\* passed = text_chars >= min_text_chars and avg >= min_avg
Verdict(text_chars, sampled, preflight_cfg, error) ==
    LET avg == IF sampled > 0 THEN Fraction(text_chars, sampled) ELSE Fraction(0, 1)
    IN  PreflightResult(/\ text_chars >= preflight_cfg.minTextChars
                        /\ FractionGeq(avg, preflight_cfg.minTextCharsPerPageAvg),
                        sampled, text_chars, avg, error)

\* a verdict that rejects when its heuristic broke
AutoReject(error) == PreflightResult(FALSE, 0, 0, Fraction(0, 1), error)

\* PreflightResult(True, 0, 0, 0, error)
AutoPass(error) == PreflightResult(TRUE, 0, 0, Fraction(0, 1), error)

\* a verdict on the total alone
run_pdf_preflight_total_only(preflight_cfg, pdf) ==
    LET sampled == sample_pdf_text(pdf, preflight_cfg.samplePages)
    IN  PreflightResult(sampled.total_chars >= preflight_cfg.minTextChars,
                        sampled.pages_to_sample, sampled.total_chars,
                        Fraction(0, 1), Null)

run_pdf_preflight(preflight_cfg, pdf) ==
    IF ~preflight_cfg.enabled THEN AutoPass(Null)
    ELSE IF preflight_cfg.samplePages <= 0 THEN AutoPass(Null)
    ELSE LET sampled == sample_pdf_text(pdf, preflight_cfg.samplePages)
             fallback == fallback_pdf_text_count(pdf)
         IN  IF ~sampled.raised
             THEN Verdict(sampled.total_chars, sampled.pages_to_sample, preflight_cfg, Null)
             ELSE IF ~fallback.raised
             THEN Verdict(fallback.count, preflight_cfg.samplePages, preflight_cfg,
                          sampled.error)
             ELSE AutoPass(sampled.error)

\* run_pdf_preflight in this environment: preflight is enabled and scan.pdf is
\* the one input without a text layer
PreflightPassed(input) == input # ScanPdf

\* characters the engines extract from one page of the input
PageCharsOf(input) == IF input = ScanPdf THEN 0 ELSE PageChars

MetricSet(pages, textChars, mdChars, textItems, tables, avg) ==
    [pages |-> pages, textChars |-> textChars, mdChars |-> mdChars,
     textItems |-> textItems, tables |-> tables, textCharsPerPageAvg |-> avg]

ZeroMetrics == MetricSet(0, 0, 0, 0, 0, 0)

\* len("\n\n---\n\n".join(pages_text)): the separator has 7 characters
JoinedLen(pages, chars) == IF pages = 0 THEN 0 ELSE pages * chars + 7 * (pages - 1)

\* every page holds one token of PageCharsOf(input) characters
compute_text_metrics(input, pages) ==
    MetricSet(pages, pages * PageCharsOf(input), JoinedLen(pages, PageCharsOf(input)),
              IF PageCharsOf(input) = 0 THEN 0 ELSE pages, 0,
              IF pages > 0 THEN PageCharsOf(input) ELSE 0)

\* the docling document has one text item per page and no table; its markdown
\* holds the text of the pages
compute_metrics(input, pages) ==
    MetricSet(pages, pages * PageCharsOf(input), pages * PageCharsOf(input),
              IF PageCharsOf(input) = 0 THEN 0 ELSE pages, 0,
              IF pages > 0 THEN PageCharsOf(input) ELSE 0)

\* a page percentage that is not scaled by the page count
PageProgressUnscaled(index, total_pages) == 15 + (index + 1) * 55

\* 15 + int(((index + 1) / max(total_pages, 1)) * 55), the floor of a quotient
\* of non-negative numbers
PageProgress(index, total_pages) == 15 + ((index + 1) * 55) \div Max(total_pages, 1)

\* ------------------------------------------------------ settings and cache
normalize_engine(value) ==
    IF value \in {ENGINE_DOCLING, ENGINE_PYMUPDF4LLM, ENGINE_PYMUPDF_TEXT}
    THEN value ELSE ENGINE_DOCLING

\* profile_override or docling_config.get("defaultProfile")
SelectedProfile(profile_override) ==
    IF Falsy(profile_override) THEN DefaultProfile ELSE profile_override

\* A docling configuration by the keys resolve reads (Null: the key is absent;
\* documentTimeoutSec is int(profile_cfg.get("documentTimeoutSec", 0))).
\* profiles is the "profiles" object, in the order of declaration.
ProfileCfg(name, pdfBackend, tableStructureMode, doCellMatching, doOcr, doTableStructure, documentTimeoutSec) ==
    [name |-> name, pdfBackend |-> pdfBackend,
     tableStructureMode |-> tableStructureMode, doCellMatching |-> doCellMatching,
     doOcr |-> doOcr, doTableStructure |-> doTableStructure,
     documentTimeoutSec |-> documentTimeoutSec]

DoclingConfig(defaultProfile, profile, profiles, defaultDevice) ==
    [defaultProfile |-> defaultProfile, profile |-> profile, profiles |-> profiles,
     defaultDevice |-> defaultDevice]

NoProfileCfg == ProfileCfg(Null, Null, Null, Null, Null, Null, 0)

\* a selection in which the configured default wins over the override
resolve_profile_config_default_first(docling_config, profile_override) ==
    LET profiles == docling_config.profiles
        configured == IF ~Falsy(docling_config.defaultProfile)
                      THEN docling_config.defaultProfile
                      ELSE IF ~Falsy(profile_override) THEN profile_override
                      ELSE docling_config.profile
        first == IF Falsy(configured) /\ Len(profiles) > 0
                 THEN profiles[1].name ELSE configured
        profile == IF Falsy(first) THEN "digital-balanced" ELSE first
        declared == {i \in DOMAIN profiles : profiles[i].name = profile}
    IN  [raised |-> declared = {},
         profile |-> profile,
         profile_cfg |-> IF declared = {} THEN NoProfileCfg
                         ELSE profiles[CHOOSE i \in declared : TRUE]]

\* resolve_profile_config: profile_override or defaultProfile or profile, else
\* the first declared profile, else "digital-balanced"; ValueError (raised) if
\* the name is not declared
resolve_profile_config(docling_config, profile_override) ==
    LET profiles == docling_config.profiles
        configured == IF ~Falsy(profile_override) THEN profile_override
                      ELSE IF ~Falsy(docling_config.defaultProfile)
                      THEN docling_config.defaultProfile
                      ELSE docling_config.profile
        first == IF Falsy(configured) /\ Len(profiles) > 0
                 THEN profiles[1].name ELSE configured
        profile == IF Falsy(first) THEN "digital-balanced" ELSE first
        declared == {i \in DOMAIN profiles : profiles[i].name = profile}
    IN  [raised |-> declared = {},
         profile |-> profile,
         profile_cfg |-> IF declared = {} THEN NoProfileCfg
                         ELSE profiles[CHOOSE i \in declared : TRUE]]

\* str(value).lower().strip() and str(value).strip() on the strings of the model
LowerStrip(value) ==
    CASE value = "CUDA " -> "cuda"
      [] value = " " -> ""
      [] value = "ACCURATE" -> "accurate"
      [] OTHER -> value

Strip(value) ==
    CASE value = "CUDA " -> "CUDA"
      [] value = " " -> ""
      [] OTHER -> value

normalize_device(value) ==
    LET normalized == IF Falsy(value) THEN "" ELSE LowerStrip(value)
    IN  IF normalized \in {"cpu", "cuda"} THEN normalized ELSE "auto"

\* docling_config["docling"]["accelerator"]["defaultDevice"], "auto" without it
resolve_default_device(docling_config) ==
    IF docling_config.defaultDevice = Null THEN "auto"
    ELSE normalize_device(docling_config.defaultDevice)

resolve_requested_device(docling_config, device_override) ==
    IF ~Falsy(device_override) /\ Strip(device_override) # ""
    THEN normalize_device(device_override)
    ELSE resolve_default_device(docling_config)

\* The machine: whether torch imports and what torch.cuda.is_available() says.
Torch(installed, cuda) == [installed |-> installed, cuda |-> cuda]

\* get_torch_info: an import failure gives (False, None, None, False)
get_torch_info(torch) ==
    [torch_available |-> torch.installed,
     cuda_available |-> torch.installed /\ torch.cuda]

\* an accelerator that takes cuda whenever it is asked for
select_accelerator_as_requested(requested, info) ==
    [requested_device |-> normalize_device(requested),
     effective_device |-> IF normalize_device(requested) = "cpu" THEN "cpu" ELSE "cuda",
     cuda_available |-> info.cuda_available,
     reason |-> Null]

select_accelerator(requested, info) ==
    LET requested_device == normalize_device(requested) IN
    [requested_device |-> requested_device,
     effective_device |->
        IF requested_device = "cuda"
        THEN IF info.torch_available /\ info.cuda_available THEN "cuda" ELSE "cpu"
        ELSE IF requested_device = "cpu" THEN "cpu"
        ELSE IF info.cuda_available THEN "cuda" ELSE "cpu",
     cuda_available |-> info.cuda_available,
     reason |-> IF requested_device = "cuda" /\ ~(info.torch_available /\ info.cuda_available)
                THEN "CUDA_NOT_AVAILABLE" ELSE Null]

\* The capability snapshot.  cudaAvailable is None, True or False in the source:
\* Null, "True", "False".  probed is FALSE for CAPABILITIES_CACHE = None.
Capabilities(probed, pdfBackends, tableModes, tableStructureOptionsFields, cudaAvailable) ==
    [probed |-> probed, pdfBackends |-> pdfBackends, tableModes |-> tableModes,
     tableStructureOptionsFields |-> tableStructureOptionsFields,
     cudaAvailable |-> cudaAvailable]

NoCapabilities == Capabilities(FALSE, << >>, << >>, << >>, Null)

\* what the installation offers: the backend modules that import, the members
\* of TableFormerMode and the parameters of TableStructureOptions
Installation(backends, tableModes, fields) ==
    [backends |-> backends, tableModes |-> tableModes, fields |-> fields]

backend_checks == << "dlparse_v1", "dlparse_v2", "dlparse_v4", "pypdfium2" >>

\* the discovery of get_docling_capabilities, run when nothing is cached
DiscoverCapabilities(install, info) ==
    Capabilities(TRUE,
                 SelectSeq(backend_checks, LAMBDA name : name \in install.backends),
                 install.tableModes,
                 install.fields,
                 IF info.torch_available
                 THEN IF info.cuda_available THEN "True" ELSE "False"
                 ELSE Null)

\* a probe that discovers again at every call
get_docling_capabilities_afresh(cache, install, info) ==
    DiscoverCapabilities(install, info)

\* if CAPABILITIES_CACHE is not None: return dict(CAPABILITIES_CACHE)
get_docling_capabilities(cache, install, info) ==
    IF cache.probed THEN cache ELSE DiscoverCapabilities(install, info)

resolve_table_structure_mode(mode) ==
    IF LowerStrip(mode) \in {"fast", "accurate"} THEN LowerStrip(mode) ELSE "fast"

Range(seq) == {seq[i] : i \in DOMAIN seq}

\* a fallback reason: the code, and the requested and the effective value the
\* source puts behind it as "<requested>-><effective>"
Reason(code, requested, effective) ==
    [code |-> code, requested |-> requested, effective |-> effective]

backend_preference == << "dlparse_v4", "dlparse_v2", "dlparse_v1", "pypdfium2" >>

\* a backend fallback that takes the last preference instead of the first
LastAvailable(preference, available, otherwise) ==
    LET found == {i \in DOMAIN preference : preference[i] \in available}
    IN  IF found = {} THEN otherwise
        ELSE preference[CHOOSE i \in found : \A j \in found : i >= j]

\* for fallback in (...): if fallback in available_backends: ...; break
FirstAvailable(preference, available, otherwise) ==
    LET found == {i \in DOMAIN preference : preference[i] \in available}
    IN  IF found = {} THEN otherwise
        ELSE preference[CHOOSE i \in found : \A j \in found : i <= j]

\* bool(value) for None, True, False
BoolOf(value) == IF value = "True" THEN "True" ELSE "False"

\* resolve_docling_settings.  info is what get_torch_info returns to
\* select_accelerator and capabilities what get_docling_capabilities returns;
\* raised: resolve_profile_config raised ValueError and no settings exist.
resolve_docling_settings(docling_config, profile_override, device_override, info, capabilities) ==
    LET selected == resolve_profile_config(docling_config, profile_override)
        profile_cfg == selected.profile_cfg
        accelerator ==
            select_accelerator(resolve_requested_device(docling_config, device_override), info)
        requested_pdf_backend ==
            IF profile_cfg.pdfBackend = Null THEN "dlparse_v2" ELSE profile_cfg.pdfBackend
        requested_table_mode ==
            resolve_table_structure_mode(IF profile_cfg.tableStructureMode = Null
                                         THEN "fast" ELSE profile_cfg.tableStructureMode)
        requested_cell_value ==
            IF profile_cfg.doCellMatching = Null THEN Null
            ELSE BoolOf(profile_cfg.doCellMatching)
        available_backends == Range(capabilities.pdfBackends)
        backend_falls_back ==
            available_backends # {} /\ requested_pdf_backend \notin available_backends
        effective_pdf_backend ==
            IF backend_falls_back
            THEN FirstAvailable(backend_preference, available_backends, requested_pdf_backend)
            ELSE requested_pdf_backend
        available_modes == Range(capabilities.tableModes)
        mode_falls_back ==
            available_modes # {} /\ requested_table_mode \notin available_modes
        effective_table_mode ==
            IF mode_falls_back /\ "fast" \in available_modes
            THEN "fast" ELSE requested_table_mode
        supported_fields == Range(capabilities.tableStructureOptionsFields)
        cell_matching_dropped ==
            /\ requested_cell_value # Null
            /\ supported_fields # {}
            /\ "do_cell_matching" \notin supported_fields
        effective_cell_matching ==
            IF cell_matching_dropped THEN Null ELSE requested_cell_value
        fallback_reasons ==
            (IF backend_falls_back
             THEN << Reason("PDF_BACKEND_FALLBACK", requested_pdf_backend,
                            effective_pdf_backend) >>
             ELSE << >>)
            \o (IF mode_falls_back
                THEN << Reason("TABLE_MODE_FALLBACK", requested_table_mode,
                               effective_table_mode) >>
                ELSE << >>)
            \o (IF cell_matching_dropped
                THEN << Reason("DO_CELL_MATCHING_UNSUPPORTED", Null, Null) >>
                ELSE << >>)
    IN  [raised |-> selected.raised,
         profile |-> selected.profile,
         pdf_backend |-> effective_pdf_backend,
         do_ocr |-> BoolOf(profile_cfg.doOcr) = "True",
         do_table_structure |-> BoolOf(profile_cfg.doTableStructure) = "True",
         table_structure_mode |-> effective_table_mode,
         document_timeout_sec |-> profile_cfg.documentTimeoutSec,
         accelerator |-> accelerator,
         do_cell_matching |-> effective_cell_matching,
         requested_settings |->
            [profile |-> selected.profile,
             pdfBackendRequested |-> requested_pdf_backend,
             tableModeRequested |-> requested_table_mode,
             doCellMatchingRequested |-> requested_cell_value],
         effective_settings |->
            [pdfBackendEffective |-> effective_pdf_backend,
             tableModeEffective |-> effective_table_mode,
             doCellMatchingEffective |-> effective_cell_matching,
             acceleratorEffective |-> accelerator.effective_device,
             fallbackReasons |-> fallback_reasons],
         fallback_reasons |-> fallback_reasons,
         capabilities |-> capabilities]

\* The environment of the worker: config/docling.json declares one profile, the
\* installation has one backend, and there is no torch, hence CPU only.
EnvDoclingConfig ==
    DoclingConfig(DefaultProfile, Null,
                  << ProfileCfg(DefaultProfile, "dlparse_v2", "fast", Null, Null, Null, 0) >>, Null)
EnvInstallation == Installation({"dlparse_v2"}, << "accurate", "fast" >>, << >>)
EnvTorch == Torch(FALSE, FALSE)
EnvModules == {"pymupdf", "pymupdf4llm", "pymupdf.layout"}

\* the settings of a job of the worker
JobSettings(profile_override) ==
    resolve_docling_settings(EnvDoclingConfig, profile_override, Null,
                             get_torch_info(EnvTorch),
                             DiscoverCapabilities(EnvInstallation, get_torch_info(EnvTorch)))

\* check_module_available: whether importlib imports the module now, and the
\* reason "IMPORT_<MODULE>_FAILED" when it does not
ImportFailed(module_name) ==
    CASE module_name = "pymupdf" -> "IMPORT_PYMUPDF_FAILED"
      [] module_name = "pymupdf4llm" -> "IMPORT_PYMUPDF4LLM_FAILED"
      [] module_name = "pymupdf.layout" -> "IMPORT_PYMUPDF_LAYOUT_FAILED"

check_module_available(module_name, importable) ==
    [ok |-> module_name \in importable,
     reason |-> IF module_name \in importable THEN Null ELSE ImportFailed(module_name)]

\* get_pymupdf_capabilities: three imports at every call, nothing is cached
get_pymupdf_capabilities(importable) ==
    LET pymupdf == check_module_available("pymupdf", importable)
        pymupdf4llm == check_module_available("pymupdf4llm", importable)
        layout == check_module_available("pymupdf.layout", importable)
    IN  [pymupdf |-> [available |-> pymupdf.ok, reason |-> pymupdf.reason,
                      version |-> IF pymupdf.ok THEN "installed" ELSE "UNKNOWN"],
         pymupdf4llm |-> [available |-> pymupdf.ok /\ pymupdf4llm.ok,
                          reason |-> IF ~pymupdf4llm.ok THEN pymupdf4llm.reason
                                     ELSE pymupdf.reason,
                          version |-> IF pymupdf.ok /\ pymupdf4llm.ok
                                      THEN "installed" ELSE "UNKNOWN"],
         layout |-> [available |-> pymupdf.ok /\ layout.ok,
                     reason |-> IF ~layout.ok THEN layout.reason ELSE pymupdf.reason]]

\* get_worker_capabilities: the docling snapshot, a copy of the memoized one,
\* with the PyMuPDF capabilities under the key "pymupdf"
get_worker_capabilities(cache, install, info, importable) ==
    [docling |-> get_docling_capabilities(cache, install, info),
     pymupdf |-> get_pymupdf_capabilities(importable)]

\* str(value) as the f-string of the key formats it: True, False, None, digits
StrOfBool(value) == IF value THEN "True" ELSE "False"
StrOfOptional(value) == IF value = Null THEN "None" ELSE value

\* the eight fields formatted and joined with "|"
build_converter_cache_key(settings) ==
    settings.profile \o "|" \o settings.pdf_backend \o "|" \o StrOfBool(settings.do_ocr)
        \o "|" \o StrOfBool(settings.do_table_structure)
        \o "|" \o settings.table_structure_mode
        \o "|" \o ToString(settings.document_timeout_sec)
        \o "|" \o settings.accelerator.effective_device
        \o "|" \o StrOfOptional(settings.do_cell_matching)

\* --------------------------------------------------------- metadata record
Outputs(markdownPath, jsonPath, markdownBytes, jsonBytes) ==
    [markdownPath |-> markdownPath, jsonPath |-> jsonPath,
     markdownBytes |-> markdownBytes, jsonBytes |-> jsonBytes]

NullOutputs == Outputs(NoPath, NoPath, 0, 0)

\* The fields of meta.json the job changes.  seq is not a field of the file: it
\* numbers the accepted job that built the record.
MetaRecord(seq, status) ==
    [seq |-> seq, status |-> status, stage |-> Null, exitCode |-> 0,
     failure |-> Null, message |-> Null, selectedProfile |-> Null,
     preflight |-> Null, passed |-> FALSE, failedGates |-> << >>,
     evaluated |-> << >>, outputs |-> NullOutputs, metrics |-> ZeroMetrics,
     stderrTail |-> "", layoutMode |-> Null, fallbackReasons |-> << >>]

\* build_base_meta and build_pymupdf_meta start the record as PENDING
build_base_meta(seq, settings) ==
    [MetaRecord(seq, "PENDING") EXCEPT !.selectedProfile = settings.profile]

build_pymupdf_meta(seq) == MetaRecord(seq, "PENDING")

\* resolve_layout_mode: the layoutMode of the job line, else layoutModeDefault of
\* the PyMuPDF configuration, which the environment leaves at "layout"
resolve_layout_mode(value) == IF value \in {"layout", "standard"} THEN value ELSE "layout"

\* the layout decision of run_pymupdf4llm_conversion: the effective layout mode
\* and the fallback reasons.  A requested layout that is disabled, or whose
\* module does not import, falls back to the standard mode.
LayoutDecision(layout_mode, layout_enabled, importable) ==
    IF layout_mode # "layout" THEN << "standard", << >> >>
    ELSE IF ~layout_enabled THEN << "standard", << "LAYOUT_DISABLED" >> >>
    ELSE IF "pymupdf.layout" \in importable THEN << "layout", << >> >>
    ELSE << "standard", << "LAYOUT_IMPORT_FAILED" >> >>

\* engine.effective of the record of a PyMuPDF4LLM job; layoutEnabled is absent
\* from the configuration, hence True
build_pymupdf4llm_meta(seq, importable) ==
    LET decision == LayoutDecision(resolve_layout_mode(Null), TRUE, importable) IN
    [build_pymupdf_meta(seq) EXCEPT !.layoutMode = decision[1],
                                    !.fallbackReasons = decision[2]]

\* no file, no record in memory
NoRecord == MetaRecord(0, "ABSENT")

\* open(path, "w") leaves a file of zero bytes until json.dump has written
EmptyFile(seq) == MetaRecord(seq, "EMPTY")

LimitEntry(pages, max_pages) ==
    [code |-> "LIMIT_MAX_PAGES", actual |-> pages, expectedOp |-> "<=",
     expected |-> max_pages]

\* ------------------------------------------------------------------- state
VARIABLES
    pc,                     \* position of the worker process
    linesRead,              \* lines consumed from standard input
    message,                \* the line read last
    jobsAccepted,           \* job commands that reached run_conversion
    stdout,                 \* the lines printed on standard output, in order
    args,                   \* the command of the job in flight
    meta,                   \* the metadata record in memory
    loc,                    \* locals of the job in flight
    metaFile,               \* exports/<docId>/meta.json on disk
    outFiles,               \* exports/<docId>/output.md and output.json on disk
    CONVERTER_CACHE,        \* keys of the cached converters
    CONVERTER_CACHE_STATS,  \* builds and hits
    LAST_JOB_PROOF,         \* docId of the last docling job
    gatesCfg,               \* content of gates.json
    gateMetrics,            \* evaluate_gates called on its own: the metrics argument
    gateVerdict,            \* and what the call returned
    doclingCfg,             \* content of config/docling.json
    overrides,              \* profile and device override of a resolution
    hardware,               \* whether torch imports and CUDA is available now
    installation,           \* what the docling installation offers
    CAPABILITIES_CACHE,     \* the memoized capability snapshot
    resolved,               \* the settings the resolution returned
    pymupdfModules,         \* the PyMuPDF modules that import now
    probes,                 \* get_worker_capabilities called on its own: what it returned
    session,                \* get_cached_converter called on its own: the calls since
                            \* the last reset, in order,
    resets,                 \* and the calls of reset_converter_cache
    keyed,                  \* build_converter_cache_key called on its own: settings and keys
    pfCfg,                  \* run_pdf_preflight called on its own: preflight.pdfText,
    pfFile,                 \* the PDF file,
    preflight               \* and the result

vars == << pc, linesRead, message, jobsAccepted, stdout, args, meta, loc, metaFile, outFiles,
           CONVERTER_CACHE, CONVERTER_CACHE_STATS, LAST_JOB_PROOF,
           gatesCfg, gateMetrics, gateVerdict,
           doclingCfg, overrides, hardware, installation, CAPABILITIES_CACHE, resolved,
           pymupdfModules, probes, session, resets, keyed, pfCfg, pfFile, preflight >>

gateVars == << gatesCfg, gateMetrics, gateVerdict >>
resolveVars == << doclingCfg, overrides, hardware, installation, CAPABILITIES_CACHE, resolved >>
sessionVars == << pymupdfModules, probes, session, resets >>
callVars == << keyed, pfCfg, pfFile, preflight >>
env == << gateVars, resolveVars, sessionVars, callVars >>
disk == << metaFile, outFiles >>
cacheVars == << CONVERTER_CACHE, CONVERTER_CACHE_STATS >>
jobVars == << args, meta, loc >>

NoArgs == PlainLine("none", Null, Null)
NoLoc == [job_id |-> Null, seq |-> 0, engine |-> Null, total_pages |-> 0,
          index |-> 0, ret |-> -1, writes |-> 0]
NoFiles == [md |-> 0, json |-> 0]
NoVerdict == [raised |-> FALSE, passed |-> FALSE, failed |-> << >>, evaluated |-> << >>]
Request(profile_override, device_override) ==
    [profile_override |-> profile_override, device_override |-> device_override]
NoRequest == Request(Null, Null)

\* no function has been called on its own
CallsIdle ==
    /\ keyed = << >>
    /\ pfCfg = PreflightCfg(FALSE, 0, 0, Fraction(0, 1))
    /\ pfFile = PdfFile(<< >>, Null, 0, FALSE)
    /\ preflight = AutoPass(Null)

\* the worker before any resolution: its environment, nothing probed
EnvInit ==
    /\ CallsIdle
    /\ doclingCfg = EnvDoclingConfig
    /\ overrides = NoRequest
    /\ hardware = EnvTorch
    /\ installation = EnvInstallation
    /\ CAPABILITIES_CACHE = NoCapabilities
    /\ resolved = JobSettings(Null)
    /\ pymupdfModules = EnvModules
    /\ probes = << >>
    /\ session = << >>
    /\ resets = 0

Init ==
    /\ pc = "start"
    /\ linesRead = 0
    /\ message = NoArgs
    /\ jobsAccepted = 0
    /\ stdout = << >>
    /\ args = NoArgs
    /\ meta = NoRecord
    /\ loc = NoLoc
    /\ metaFile = [d \in DocIds |-> NoRecord]
    /\ outFiles = [d \in DocIds |-> NoFiles]
    /\ CONVERTER_CACHE = {}
    /\ CONVERTER_CACHE_STATS = [builds |-> 0, hits |-> 0]
    /\ LAST_JOB_PROOF = Null
    /\ gatesCfg \in GateConfigs
    /\ gateMetrics = ZeroMetrics
    /\ gateVerdict = NoVerdict
    /\ EnvInit

\* get_docling_capabilities() in the worker: the probe of its machine, memoized
\* in CAPABILITIES_CACHE
ProbeCapabilities ==
    /\ CAPABILITIES_CACHE' =
          get_docling_capabilities(CAPABILITIES_CACHE, installation, get_torch_info(hardware))
    /\ UNCHANGED << gateVars, doclingCfg, overrides, hardware, installation, resolved,
                    sessionVars, callVars >>

\* ------------------------------------------------------------- worker loop
\* a prewarm that builds the engine and drops it
PrewarmDropsEngine(prewarmed) == {}

\* the cache after prewarm_converter_cache: get_cached_converter(settings) with
\* the settings of the default profile, unless resolving or building raised
PrewarmedCache(prewarmed) ==
    IF prewarmed THEN {build_converter_cache_key(JobSettings(Null))} ELSE {}

\* get_docling_version, prewarm_converter_cache and emit_ready.  Prewarm resolves
\* the settings of the default profile, which probes the capabilities, and
\* builds their converter; a failure is only logged on stderr.
Startup ==
    /\ pc = "start"
    /\ \E prewarmed \in BOOLEAN :
        /\ CONVERTER_CACHE' = PrewarmedCache(prewarmed)
        /\ CONVERTER_CACHE_STATS' =
              [CONVERTER_CACHE_STATS EXCEPT !.builds = IF prewarmed THEN 1 ELSE 0]
        /\ stdout' = Append(stdout, emit_ready(prewarmed))
    /\ ProbeCapabilities
    /\ pc' = "read"
    /\ UNCHANGED << linesRead, jobsAccepted, message, jobVars, disk, LAST_JOB_PROOF >>

CanRead == pc = "read" /\ linesRead < MaxLines

\* a loop that ends at a line it has no use for
StopOnBadLine ==
    /\ pc' = "done"
    /\ UNCHANGED << jobsAccepted, stdout, jobVars, disk, cacheVars, LAST_JOB_PROOF, env >>

\* continue: the loop goes to the next line and nothing else happens
Continue ==
    UNCHANGED << pc, jobsAccepted, stdout, jobVars, disk, cacheVars, LAST_JOB_PROOF, env >>

\* a shutdown command the loop reads past
BreakKeepsReading ==
    UNCHANGED << pc, jobsAccepted, stdout, jobVars, disk, cacheVars, LAST_JOB_PROOF, env >>

\* break: the loop ends and run_worker_loop returns 0
Break ==
    /\ pc' = "done"
    /\ UNCHANGED << jobsAccepted, stdout, jobVars, disk, cacheVars, LAST_JOB_PROOF, env >>

\* emit_event({"event": "capabilities", ...}); continue
AnswerCapabilities(request) ==
    /\ stdout' = Append(stdout, emit_capabilities(request.requestId, LAST_JOB_PROOF))
    /\ ProbeCapabilities
    /\ UNCHANGED << pc, jobsAccepted, jobVars, disk, cacheVars, LAST_JOB_PROOF >>

\* args = argparse.Namespace(...); run_conversion is entered
RunJob(job) ==
    /\ args' = job
    /\ loc' = [NoLoc EXCEPT !.job_id = JobIdOf(job), !.seq = jobsAccepted + 1,
                            !.engine = normalize_engine(job.engine)]
    /\ jobsAccepted' = jobsAccepted + 1
    /\ pc' = "rc_enter"
    /\ UNCHANGED << stdout, meta, disk, cacheVars, LAST_JOB_PROOF, env >>

\* the body of the loop for one line of standard input
ProcessLine(line) ==
    /\ linesRead' = linesRead + 1
    /\ message' = line
    /\ IF line.kind = "blank" THEN Continue
       ELSE IF line.kind = "garbage" THEN Continue
       ELSE IF line.kind # "object" THEN Continue
       ELSE IF line.type = "shutdown" THEN Break
       ELSE IF line.type = "capabilities" THEN AnswerCapabilities(line)
       ELSE IF line.type # "job" THEN Continue
       ELSE IF JobFieldsMissing(line) THEN Continue
       ELSE RunJob(line)

\* if not payload: continue
ReadBlank == CanRead /\ \E line \in BlankLines : ProcessLine(line)

\* except json.JSONDecodeError: continue
ReadUnparsable == CanRead /\ \E line \in GarbageLines : ProcessLine(line)

\* if not isinstance(message, dict): continue
ReadNonObject == CanRead /\ \E line \in ValueLines : ProcessLine(line)

\* if message.get("type") == "shutdown": break
ReadShutdown == CanRead /\ \E line \in ShutdownLines : ProcessLine(line)

\* if message.get("type") == "capabilities": ...
ReadCapabilities == CanRead /\ \E line \in CapabilitiesLines : ProcessLine(line)

\* if message.get("type") != "job": continue
ReadOtherType == CanRead /\ \E line \in OtherTypeLines : ProcessLine(line)

\* a job command that fails the required-field test
ReadJobIgnored ==
    /\ CanRead
    /\ \E line \in JobLines : JobFieldsMissing(line) /\ ProcessLine(line)

\* a job command that passes it
ReadJobAccepted ==
    /\ CanRead
    /\ jobsAccepted < MaxJobs
    /\ \E line \in JobLines : ~JobFieldsMissing(line) /\ ProcessLine(line)

\* for line in sys.stdin ends: return 0
EndOfInput ==
    /\ pc = "read"
    /\ pc' = "done"
    /\ UNCHANGED << linesRead, jobsAccepted, message, stdout, jobVars, disk, cacheVars,
                    LAST_JOB_PROOF, env >>

\* ------------------------------------------------------------ orchestrator
Emit(line) == stdout' = Append(stdout, line)

Progress(stage, progress) == emit_progress(stage, progress, loc.job_id, loc.seq)

\* whether a call into the engine stack raises: it may for the input bad.pdf
MayRaise == IF args.input = BadPdf THEN BOOLEAN ELSE {FALSE}

\* An exception leaves run_conversion and run_worker_loop: the process ends
\* with a traceback, nothing more is printed or written.
Crash ==
    /\ pc' = "crashed"
    /\ UNCHANGED << linesRead, jobsAccepted, message, stdout, jobVars, disk, cacheVars,
                    LAST_JOB_PROOF, env >>

\* run_conversion up to the first progress event: load_config, engine routing,
\* settings, the PENDING record, the proof slot and the DOCLING_EFFECTIVE line;
\* all of it runs before the try block.
EnterDocling ==
    /\ pc = "rc_enter"
    /\ loc.engine = ENGINE_DOCLING
    /\ IF \/ args.gates # GatesJson
          \/ SelectedProfile(args.profile) \notin Profiles
          \/ ~InputReadable(args.input)
       THEN Crash
       ELSE /\ meta' = build_base_meta(loc.seq, JobSettings(args.profile))
            /\ LAST_JOB_PROOF' = args.docId
            /\ stdout' = stdout \o << log_docling_effective(args.docId, loc.seq),
                                      Progress("INIT", 5) >>
            /\ pc' = "rc_preflight"
            /\ ProbeCapabilities
            /\ UNCHANGED << linesRead, jobsAccepted, message, args, loc, disk, cacheVars >>

\* run_pymupdf_conversion and the head of run_pymupdf_text_conversion or
\* run_pymupdf4llm_conversion, up to the first progress event
EnterPymupdf ==
    /\ pc = "rc_enter"
    /\ loc.engine # ENGINE_DOCLING
    /\ IF args.gates # GatesJson \/ ~InputReadable(args.input)
       THEN Crash
       ELSE /\ meta' = IF loc.engine = ENGINE_PYMUPDF4LLM
                        THEN build_pymupdf4llm_meta(loc.seq, pymupdfModules)
                        ELSE build_pymupdf_meta(loc.seq)
            /\ Emit(Progress("INIT", 5))
            /\ pc' = "pm_open"
            /\ UNCHANGED << linesRead, jobsAccepted, message, args, loc, disk, cacheVars,
                            LAST_JOB_PROOF, env >>

\* a rejection that forgets to return
AfterPreflightFallsThrough(passed) == "rc_convert"

\* if not preflight.passed: ... return 2; otherwise the flow goes on to CONVERT
AfterPreflight(passed) == IF passed THEN "rc_convert" ELSE "rc_reject_write"

\* a preflight for every input
PreflightForAll(input) == TRUE

\* if args.input.lower().endswith(".pdf") and is_probable_pdf(args.input):
NeedsPreflight(input) == EndsWithPdf(input) /\ is_probable_pdf(input)

\* the PREFLIGHT stage: only for a probable PDF; a failed preflight fills the
\* record and emits the terminal FAILED event
Preflight ==
    /\ pc = "rc_preflight"
    /\ IF NeedsPreflight(args.input)
       THEN IF PreflightPassed(args.input)
            THEN /\ Emit(Progress("PREFLIGHT", 12))
                 /\ meta' = [meta EXCEPT !.preflight = "passed"]
                 /\ pc' = AfterPreflight(TRUE)
            ELSE /\ stdout' = stdout \o << Progress("PREFLIGHT", 12),
                                           Progress("FAILED", 100) >>
                 /\ meta' = [meta EXCEPT !.preflight = "failed",
                                         !.status = "FAILED",
                                         !.stage = "PREFLIGHT",
                                         !.message = "rejected",
                                         !.selectedProfile = "rejected-no-text",
                                         !.failure = "NO_TEXT_LAYER",
                                         !.exitCode = 2,
                                         !.passed = FALSE]
                 /\ pc' = AfterPreflight(FALSE)
       ELSE /\ pc' = "rc_convert"
            /\ UNCHANGED << stdout, meta >>
    /\ UNCHANGED << linesRead, jobsAccepted, message, args, loc, disk, cacheVars,
                    LAST_JOB_PROOF, env >>

\* write_json up to its open(path, "w"): the file is truncated; exit_code is
\* what the flow returns once the record is written
WriteJsonOpen(exit_code) ==
    /\ metaFile' = [metaFile EXCEPT ![args.docId] = EmptyFile(loc.seq)]
    /\ loc' = [loc EXCEPT !.ret = exit_code, !.writes = @ + 1]
    /\ pc' = "wj_dump"

\* record_processing_end; write_json(meta_path, meta); return 2
RejectWrite ==
    /\ pc = "rc_reject_write"
    /\ WriteJsonOpen(2)
    /\ UNCHANGED << linesRead, jobsAccepted, message, stdout, args, meta, outFiles, cacheVars,
                    LAST_JOB_PROOF, env >>

\* a cache that stores the engine under the key before the build has returned
CacheStoresBeforeBuild(key, buildRaises) ==
    IF key \in CONVERTER_CACHE
    THEN << CONVERTER_CACHE, [CONVERTER_CACHE_STATS EXCEPT !.hits = @ + 1] >>
    ELSE << CONVERTER_CACHE \cup {key}, [CONVERTER_CACHE_STATS EXCEPT !.builds = @ + 1] >>

\* a cache that builds at every call
CacheAlwaysBuilds(key, buildRaises) ==
    IF buildRaises
    THEN << CONVERTER_CACHE, CONVERTER_CACHE_STATS >>
    ELSE << CONVERTER_CACHE \cup {key}, [CONVERTER_CACHE_STATS EXCEPT !.builds = @ + 1] >>

\* get_cached_converter: a hit counts and returns the cached converter; a miss
\* builds, stores and counts; a build that raises stores nothing
CacheAfterGet(key, buildRaises) ==
    IF key \in CONVERTER_CACHE
    THEN << CONVERTER_CACHE, [CONVERTER_CACHE_STATS EXCEPT !.hits = @ + 1] >>
    ELSE IF buildRaises
    THEN << CONVERTER_CACHE, CONVERTER_CACHE_STATS >>
    ELSE << CONVERTER_CACHE \cup {key}, [CONVERTER_CACHE_STATS EXCEPT !.builds = @ + 1] >>

\* get_docling_converter may raise, whatever the input; it runs on a miss only
BuildMayRaise(key) == IF key \in CONVERTER_CACHE THEN {FALSE} ELSE BOOLEAN

\* the CONVERT stage: the engine comes from the cache, then converter.convert
Convert ==
    /\ pc = "rc_convert"
    /\ LET key == build_converter_cache_key(JobSettings(args.profile)) IN
       \E buildRaises \in BuildMayRaise(key), convertRaises \in MayRaise,
          docPages \in 1..MaxPages :
        /\ buildRaises => ~convertRaises
        /\ (buildRaises \/ convertRaises) => docPages = 1
        /\ Emit(Progress("CONVERT", 25))
        /\ CONVERTER_CACHE' = CacheAfterGet(key, buildRaises)[1]
        /\ CONVERTER_CACHE_STATS' = CacheAfterGet(key, buildRaises)[2]
        /\ IF buildRaises \/ convertRaises
           THEN pc' = "rc_except" /\ loc' = loc
           ELSE pc' = "rc_export" /\ loc' = [loc EXCEPT !.total_pages = docPages]
    /\ UNCHANGED << linesRead, jobsAccepted, message, args, meta, disk, LAST_JOB_PROOF, env >>

\* the EXPORT stage: document.export_to_markdown()
Export ==
    /\ pc = "rc_export"
    /\ Emit(Progress("EXPORT", 55))
    /\ \E raises \in MayRaise : pc' = IF raises THEN "rc_except" ELSE "rc_export_json"
    /\ UNCHANGED << linesRead, jobsAccepted, message, jobVars, disk, cacheVars, LAST_JOB_PROOF, env >>

\* export_doc_to_dict(document)
ExportJson ==
    /\ pc = "rc_export_json"
    /\ Emit(Progress("EXPORT_JSON", 65))
    /\ \E raises \in MayRaise : pc' = IF raises THEN "rc_except" ELSE "rc_metrics"
    /\ UNCHANGED << linesRead, jobsAccepted, message, jobVars, disk, cacheVars, LAST_JOB_PROOF, env >>

\* import pymupdf; doc = pymupdf.open(args.input): the PyMuPDF engines refuse
\* an input that is no .pdf with a ValueError inside the try block
PmOpen ==
    /\ pc = "pm_open"
    /\ IF ~EndsWithPdf(args.input)
       THEN pc' = "rc_except" /\ loc' = loc
       ELSE \E docPages \in 1..MaxPages :
            /\ loc' = [loc EXCEPT !.total_pages = docPages, !.index = 0]
            /\ pc' = "pm_page"
    /\ UNCHANGED << linesRead, jobsAccepted, message, stdout, args, meta, disk, cacheVars,
                    LAST_JOB_PROOF, env >>

\* one turn of the page loop of run_pymupdf_text_conversion: the page is
\* extracted, then its progress event is emitted
PmTextPage ==
    /\ pc = "pm_page"
    /\ loc.engine = ENGINE_PYMUPDF_TEXT
    /\ \E raises \in MayRaise :
       IF raises
       THEN pc' = "rc_except" /\ UNCHANGED << loc, stdout >>
       ELSE /\ Emit(Progress("EXTRACT_PYMUPDF", PageProgress(loc.index, loc.total_pages)))
            /\ loc' = [loc EXCEPT !.index = @ + 1]
            /\ pc' = IF loc.index + 1 = loc.total_pages THEN "rc_metrics" ELSE "pm_page"
    /\ UNCHANGED << linesRead, jobsAccepted, message, args, meta, disk, cacheVars,
                    LAST_JOB_PROOF, env >>

\* one turn of the page loop of run_pymupdf4llm_conversion: the progress event
\* is emitted, then the page is converted
Pm4llmPage ==
    /\ pc = "pm_page"
    /\ loc.engine = ENGINE_PYMUPDF4LLM
    /\ Emit(Progress("EXTRACT_PYMUPDF4LLM", PageProgress(loc.index, loc.total_pages)))
    /\ \E raises \in MayRaise :
       IF raises
       THEN pc' = "rc_except" /\ loc' = loc
       ELSE /\ loc' = [loc EXCEPT !.index = @ + 1]
            /\ pc' = IF loc.index + 1 = loc.total_pages THEN "rc_metrics" ELSE "pm_page"
    /\ UNCHANGED << linesRead, jobsAccepted, message, args, meta, disk, cacheVars,
                    LAST_JOB_PROOF, env >>

\* the METRICS stage of the three flows
Metrics ==
    /\ pc = "rc_metrics"
    /\ Emit(Progress("METRICS", 75))
    /\ \E raises \in MayRaise : pc' = IF raises THEN "rc_except" ELSE "rc_gates"
    /\ UNCHANGED << linesRead, jobsAccepted, message, jobVars, disk, cacheVars, LAST_JOB_PROOF, env >>

JobMetrics ==
    IF loc.engine = ENGINE_DOCLING
    THEN compute_metrics(args.input, loc.total_pages)
    ELSE compute_text_metrics(args.input, loc.total_pages)

\* a ceiling that already fails a document of exactly max_pages pages
CeilingReached(metrics, config) ==
    LimitMaxPages(config) # 0 /\ metrics.pages >= LimitMaxPages(config)

\* if max_pages and metrics["pages"] > max_pages
CeilingExceeded(metrics, config) ==
    LimitMaxPages(config) # 0 /\ metrics.pages > LimitMaxPages(config)

\* the failed list after the page ceiling
FailedWithCeiling(failed, metrics, config) ==
    IF CeilingExceeded(metrics, config)
    THEN Append(failed, LimitEntry(metrics.pages, LimitMaxPages(config)))
    ELSE failed

\* gates_passed after the page ceiling
PassedWithCeiling(passed, metrics, config) ==
    IF CeilingExceeded(metrics, config) THEN FALSE ELSE passed

\* the GATES stage of the three flows: evaluate_gates, the page ceiling, and the
\* verdict stored in the record
Gates ==
    /\ pc = "rc_gates"
    /\ Emit(Progress("GATES", 85))
    /\ LET verdict == evaluate_gates(JobMetrics, gatesCfg)
           gates_passed == PassedWithCeiling(verdict.passed, JobMetrics, gatesCfg)
       IN IF verdict.raised
          THEN pc' = "rc_except" /\ meta' = meta
          ELSE /\ meta' = [meta EXCEPT
                              !.metrics = JobMetrics,
                              !.passed = gates_passed,
                              !.failedGates = FailedWithCeiling(verdict.failed, JobMetrics, gatesCfg),
                              !.evaluated = verdict.evaluated,
                              !.status = IF gates_passed THEN "SUCCESS" ELSE "FAILED",
                              !.stage = IF gates_passed THEN "DONE" ELSE "FAILED"]
               /\ pc' = "rc_outputs"
    /\ UNCHANGED << linesRead, jobsAccepted, message, args, loc, disk, cacheVars,
                    LAST_JOB_PROOF, env >>

\* the outputs descriptor of a job that wrote both files; the structured export
\* is the markdown plus the two bytes of its braces
WrittenOutputs(data_dir, doc_id, metrics) ==
    Outputs(Path(data_dir, doc_id, "output.md"), Path(data_dir, doc_id, "output.json"),
            metrics.mdChars, metrics.mdChars + 2)

\* outputs written whatever the verdict
WritesOutputsAlways(gates_passed) == TRUE

\* if gates_passed: whether the job enters WRITE_OUTPUTS
WritesOutputs(gates_passed) == gates_passed

\* the WRITE_OUTPUTS stage, entered only if the gates passed; otherwise the
\* outputs descriptor stays null and zero
WriteOutputs ==
    /\ pc = "rc_outputs"
    /\ IF WritesOutputs(meta.passed)
       THEN /\ Emit(Progress("WRITE_OUTPUTS", 92))
            /\ \E mdRaises \in MayRaise, jsonRaises \in MayRaise :
               IF mdRaises
               THEN pc' = "rc_except" /\ UNCHANGED << meta, outFiles >>
               ELSE IF jsonRaises
               THEN /\ outFiles' = [outFiles EXCEPT ![args.docId].md = loc.seq]
                    /\ pc' = "rc_except"
                    /\ meta' = meta
               ELSE /\ outFiles' = [outFiles EXCEPT ![args.docId] =
                                        [md |-> loc.seq, json |-> loc.seq]]
                    /\ meta' = [meta EXCEPT
                                   !.outputs = WrittenOutputs(args.dataDir, args.docId, meta.metrics),
                                   !.exitCode = 0]
                    /\ pc' = "rc_done"
       ELSE /\ meta' = [meta EXCEPT !.outputs = NullOutputs, !.exitCode = 0]
            /\ pc' = "rc_done"
            /\ UNCHANGED << stdout, outFiles >>
    /\ UNCHANGED << linesRead, jobsAccepted, message, args, loc, metaFile, cacheVars,
                    LAST_JOB_PROOF, env >>

\* except Exception as exc: the record becomes FAILED / WORKER_EXCEPTION and the
\* terminal FAILED event is emitted; config["limits"]["stderrTailKb"] raises
\* KeyError out of the handler when the gate configuration has no such key
Except ==
    /\ pc = "rc_except"
    /\ IF ~HasStderrTailKb(gatesCfg)
       THEN Crash
       ELSE /\ meta' = [meta EXCEPT !.status = "FAILED",
                                    !.stage = "FAILED",
                                    !.exitCode = 1,
                                    !.message = "Processing failed.",
                                    !.failure = "WORKER_EXCEPTION",
                                    !.stderrTail = IF gatesCfg.stderrTailKb <= 0
                                                   THEN "" ELSE "tail"]
            /\ Emit(Progress("FAILED", 100))
            /\ pc' = "rc_fail_write"
            /\ UNCHANGED << linesRead, jobsAccepted, message, args, loc, disk, cacheVars,
                            LAST_JOB_PROOF, env >>

\* record_processing_end; write_json(meta_path, meta); return 1
FailWrite ==
    /\ pc = "rc_fail_write"
    /\ WriteJsonOpen(1)
    /\ UNCHANGED << linesRead, jobsAccepted, message, stdout, args, meta, outFiles, cacheVars,
                    LAST_JOB_PROOF, env >>

\* a return that emits no terminal event
DoneSilent ==
    /\ pc = "rc_done"
    /\ pc' = "rc_done_write"
    /\ UNCHANGED << linesRead, jobsAccepted, message, stdout, jobVars, disk, cacheVars,
                    LAST_JOB_PROOF, env >>

\* record_processing_end; emit_progress("DONE", ..., 100)
Done ==
    /\ pc = "rc_done"
    /\ Emit(Progress("DONE", 100))
    /\ pc' = "rc_done_write"
    /\ UNCHANGED << linesRead, jobsAccepted, message, jobVars, disk, cacheVars, LAST_JOB_PROOF, env >>

\* a return that persists the record of a successful job only
DoneWriteOnlyOnSuccess ==
    /\ pc = "rc_done_write"
    /\ IF meta.passed
       THEN WriteJsonOpen(0)
       ELSE /\ loc' = [loc EXCEPT !.ret = 0]
            /\ pc' = "loop_result"
            /\ UNCHANGED metaFile
    /\ UNCHANGED << linesRead, jobsAccepted, message, stdout, args, meta, outFiles, cacheVars,
                    LAST_JOB_PROOF, env >>

\* write_json(meta_path, meta); return 0
DoneWrite ==
    /\ pc = "rc_done_write"
    /\ WriteJsonOpen(0)
    /\ UNCHANGED << linesRead, jobsAccepted, message, stdout, args, meta, outFiles, cacheVars,
                    LAST_JOB_PROOF, env >>

\* the rest of write_json: json.dump(payload, handle, indent=2) and the close
\* of the file put the whole record on disk; run_conversion returns
WriteJsonDump ==
    /\ pc = "wj_dump"
    /\ metaFile' = [metaFile EXCEPT ![args.docId] = meta]
    /\ pc' = "loop_result"
    /\ UNCHANGED << linesRead, jobsAccepted, message, stdout, jobVars, outFiles, cacheVars,
                    LAST_JOB_PROOF, env >>

\* back in the loop: emit_result(job_id, exit_code, meta_path), next line
EmitResult ==
    /\ pc = "loop_result"
    /\ Emit(emit_result(loc.job_id, loc.ret, MetaPath(args.dataDir, args.docId), loc.seq))
    /\ args' = NoArgs
    /\ meta' = NoRecord
    /\ loc' = NoLoc
    /\ pc' = "read"
    /\ UNCHANGED << linesRead, jobsAccepted, message, disk, cacheVars, LAST_JOB_PROOF, env >>

Next ==
    \/ Startup
    \/ ReadBlank
    \/ ReadUnparsable
    \/ ReadNonObject
    \/ ReadShutdown
    \/ EndOfInput
    \/ ReadCapabilities
    \/ ReadOtherType
    \/ ReadJobIgnored
    \/ ReadJobAccepted
    \/ EnterDocling
    \/ EnterPymupdf
    \/ Preflight
    \/ RejectWrite
    \/ Convert
    \/ Export
    \/ ExportJson
    \/ PmOpen
    \/ PmTextPage
    \/ Pm4llmPage
    \/ Metrics
    \/ Gates
    \/ WriteOutputs
    \/ Except
    \/ FailWrite
    \/ Done
    \/ DoneWrite
    \/ WriteJsonDump
    \/ EmitResult

Spec == Init /\ [][Next]_vars

\* ------------------------------------------------- evaluate_gates on its own
\* evaluate_gates(metrics, config) applied to every configuration of at most
\* MaxRules rules on the metric "pages" with the threshold GateT: each rule has
\* one of the six operators or an unsupported one, severity FAIL or WARN, and is
\* enabled, disabled or without "enabled" key; the metric is one below, at or
\* one above the threshold, or is missing from the metric set.
MaxRules == 2
GateT == 2

GateCodes == << "G1", "G2", "G3" >>
GateOps == SupportedOps \cup {"~="}
GateSeverities == {"FAIL", "WARN"}

GateRuleShapes ==
    {Rule("", en, "pages", op, GateT, sev) :
        en \in BOOLEAN, op \in GateOps, sev \in GateSeverities}
    \cup {RuleWithoutEnabled("", "pages", op, GateT, sev) :
        op \in GateOps, sev \in GateSeverities}

\* the rules are told apart by their codes
GateRuleList(n, shapes) == [i \in 1..n |-> [shapes[i] EXCEPT !.code = GateCodes[i]]]

GateInputConfig(gates) == GateConfig(FALSE, FALSE, 0, FALSE, 0, gates)

GateInputMetrics ==
    {[pages |-> v] : v \in (GateT - 1)..(GateT + 1)} \cup {[textChars |-> GateT]}

GateInit ==
    /\ pc = "eg_call"
    /\ linesRead = 0
    /\ message = NoArgs
    /\ jobsAccepted = 0
    /\ stdout = << >>
    /\ args = NoArgs
    /\ meta = NoRecord
    /\ loc = NoLoc
    /\ metaFile = [d \in DocIds |-> NoRecord]
    /\ outFiles = [d \in DocIds |-> NoFiles]
    /\ CONVERTER_CACHE = {}
    /\ CONVERTER_CACHE_STATS = [builds |-> 0, hits |-> 0]
    /\ LAST_JOB_PROOF = Null
    /\ \E n \in 0..MaxRules :
          \E shapes \in [1..n -> GateRuleShapes] :
             gatesCfg = GateInputConfig(GateRuleList(n, shapes))
    /\ gateMetrics \in GateInputMetrics
    /\ gateVerdict = NoVerdict
    /\ EnvInit

\* verdict = evaluate_gates(metrics, config), or ValueError
Evaluate ==
    /\ pc = "eg_call"
    /\ gateVerdict' = evaluate_gates(gateMetrics, gatesCfg)
    /\ pc' = IF gateVerdict'.raised THEN "eg_raised" ELSE "eg_return"
    /\ UNCHANGED << linesRead, jobsAccepted, message, stdout, jobVars, disk, cacheVars,
                    LAST_JOB_PROOF, gatesCfg, gateMetrics, resolveVars, sessionVars,
                    callVars >>

GateNext == Evaluate

GateSpec == GateInit /\ [][GateNext]_vars

\* ---------------------------------------- resolve_docling_settings on its own
\* One resolution in a fresh process, for every docling configuration, pair of
\* overrides, machine and installation below.  Profile "a" asks for the default
\* backend, the accurate table mode and cell matching; profile "b" for the
\* pypdfium2 backend and nothing else.
ResolveProfiles ==
    << ProfileCfg("a", Null, "ACCURATE", "True", "True", "True", 1),
       ProfileCfg("b", "pypdfium2", Null, Null, Null, Null, 0) >>

ResolveDefaultProfiles == {Null, "a", "zz"}
ResolveProfileKeys == {Null, "b"}
ResolveProfileLists == {<< >>, ResolveProfiles}
ResolveDefaultDevices == {Null, "cuda", "cpu"}
ResolveProfileOverrides == {Null, "b", "ghost"}
ResolveDeviceOverrides == {Null, " ", "CUDA ", "gpu"}
Machines == {Torch(FALSE, FALSE), Torch(TRUE, FALSE), Torch(TRUE, TRUE)}
TableModeLists == {<< >>, << "accurate", "fast" >>, << "accurate" >>, << "fast" >>}
FieldLists == {<< "mode" >>, << "mode", "do_cell_matching" >>}

ResolveInit ==
    /\ pc = "rs_call"
    /\ linesRead = 0
    /\ message = NoArgs
    /\ jobsAccepted = 0
    /\ stdout = << >>
    /\ args = NoArgs
    /\ meta = NoRecord
    /\ loc = NoLoc
    /\ metaFile = [d \in DocIds |-> NoRecord]
    /\ outFiles = [d \in DocIds |-> NoFiles]
    /\ CONVERTER_CACHE = {}
    /\ CONVERTER_CACHE_STATS = [builds |-> 0, hits |-> 0]
    /\ LAST_JOB_PROOF = Null
    /\ gatesCfg = BareCfg
    /\ gateMetrics = ZeroMetrics
    /\ gateVerdict = NoVerdict
    /\ \E dp \in ResolveDefaultProfiles, pk \in ResolveProfileKeys,
          pl \in ResolveProfileLists, dd \in ResolveDefaultDevices :
          doclingCfg = DoclingConfig(dp, pk, pl, dd)
    /\ \E po \in ResolveProfileOverrides, do \in ResolveDeviceOverrides :
          overrides = Request(po, do)
    /\ hardware \in Machines
    /\ \E backends \in SUBSET Range(backend_checks), modes \in TableModeLists,
          fields \in FieldLists :
          installation = Installation(backends, modes, fields)
    /\ CAPABILITIES_CACHE = NoCapabilities
    /\ resolved = JobSettings(Null)
    /\ pymupdfModules = EnvModules
    /\ probes = << >>
    /\ session = << >>
    /\ resets = 0
    /\ CallsIdle

\* settings = resolve_docling_settings(docling_config, profile_override,
\* device_override): the accelerator is selected, the capabilities are probed
\* and memoized, the settings are built; or ValueError for an undeclared profile
Resolve ==
    /\ pc = "rs_call"
    /\ LET info == get_torch_info(hardware)
           capabilities == get_docling_capabilities(CAPABILITIES_CACHE, installation, info)
           settings == resolve_docling_settings(doclingCfg, overrides.profile_override,
                                                overrides.device_override, info, capabilities)
       IN  /\ resolved' = settings
           /\ CAPABILITIES_CACHE' =
                 IF settings.raised THEN CAPABILITIES_CACHE ELSE capabilities
           /\ pc' = IF settings.raised THEN "rs_raised" ELSE "rs_return"
    /\ UNCHANGED << linesRead, jobsAccepted, message, stdout, jobVars, disk, cacheVars,
                    LAST_JOB_PROOF, gateVars, doclingCfg, overrides, hardware, installation,
                    sessionVars, callVars >>

ResolveNext == Resolve

ResolveSpec == ResolveInit /\ [][ResolveNext]_vars

\* ------------------------------------- probes and engine cache in one process
\* The functions called directly, as the tests and the one-shot command do, in
\* any order: get_worker_capabilities, and resolve_docling_settings followed
\* by get_cached_converter.  Between two calls the machine may change: torch or
\* CUDA comes or goes, the PyMuPDF modules start or stop importing.
MaxProbes == 2
MaxSessionJobs == 2
\* calls of reset_converter_cache
MaxResets == 1

SessionDevices == {Null, "cpu"}
ModuleSets == {{}, EnvModules}

SessionInit ==
    /\ pc = "ss_idle"
    /\ linesRead = 0
    /\ message = NoArgs
    /\ jobsAccepted = 0
    /\ stdout = << >>
    /\ args = NoArgs
    /\ meta = NoRecord
    /\ loc = NoLoc
    /\ metaFile = [d \in DocIds |-> NoRecord]
    /\ outFiles = [d \in DocIds |-> NoFiles]
    /\ CONVERTER_CACHE = {}
    /\ CONVERTER_CACHE_STATS = [builds |-> 0, hits |-> 0]
    /\ LAST_JOB_PROOF = Null
    /\ gatesCfg = BareCfg
    /\ gateMetrics = ZeroMetrics
    /\ gateVerdict = NoVerdict
    /\ doclingCfg = EnvDoclingConfig
    /\ overrides = NoRequest
    /\ hardware \in Machines
    /\ installation = EnvInstallation
    /\ CAPABILITIES_CACHE = NoCapabilities
    /\ resolved = JobSettings(Null)
    /\ pymupdfModules \in ModuleSets
    /\ probes = << >>
    /\ session = << >>
    /\ resets = 0
    /\ CallsIdle

\* capabilities = get_worker_capabilities()
ProbeWorker ==
    /\ pc = "ss_idle"
    /\ Len(probes) < MaxProbes
    /\ LET info == get_torch_info(hardware) IN
        /\ probes' = Append(probes, get_worker_capabilities(CAPABILITIES_CACHE, installation,
                                                            info, pymupdfModules))
        /\ CAPABILITIES_CACHE' = get_docling_capabilities(CAPABILITIES_CACHE, installation, info)
    /\ UNCHANGED << pc, linesRead, jobsAccepted, message, stdout, jobVars, disk, cacheVars,
                    LAST_JOB_PROOF, gateVars, doclingCfg, overrides, hardware, installation,
                    resolved, pymupdfModules, session, resets, callVars >>

\* One call of get_cached_converter, as session keeps it: the settings it was
\* given and their key, whether the build raised, and the wasCached it returned.
CacheCall(request, settings, key, raised, wasCached) ==
    [request |-> request, settings |-> settings, key |-> key, raised |-> raised,
     wasCached |-> wasCached]

\* settings = resolve_docling_settings(docling_config, device_override=...);
\* converter, was_cached = get_cached_converter(settings)
ResolveAndGet ==
    /\ pc = "ss_idle"
    /\ Len(session) < MaxSessionJobs
    /\ \E device_override \in SessionDevices :
        LET info == get_torch_info(hardware)
            capabilities == get_docling_capabilities(CAPABILITIES_CACHE, installation, info)
            settings == resolve_docling_settings(doclingCfg, Null, device_override,
                                                 info, capabilities)
            key == build_converter_cache_key(settings)
        IN  \E buildRaises \in BuildMayRaise(key) :
              /\ overrides' = Request(Null, device_override)
              /\ resolved' = settings
              /\ CAPABILITIES_CACHE' = capabilities
              /\ CONVERTER_CACHE' = CacheAfterGet(key, buildRaises)[1]
              /\ CONVERTER_CACHE_STATS' = CacheAfterGet(key, buildRaises)[2]
              /\ session' = Append(session,
                                   CacheCall(overrides', settings, key, buildRaises,
                                             CacheAfterGet(key, buildRaises)[2].hits
                                                > CONVERTER_CACHE_STATS.hits))
    /\ UNCHANGED << pc, linesRead, jobsAccepted, message, stdout, jobVars, disk,
                    LAST_JOB_PROOF, gateVars, doclingCfg, hardware, installation,
                    pymupdfModules, probes, resets, callVars >>

\* torch, CUDA or the PyMuPDF modules come or go between two calls
MachineChanges ==
    /\ pc = "ss_idle"
    /\ \E machine \in Machines, importable \in ModuleSets :
        /\ << machine, importable >> # << hardware, pymupdfModules >>
        /\ hardware' = machine
        /\ pymupdfModules' = importable
    /\ UNCHANGED << pc, linesRead, jobsAccepted, message, stdout, jobVars, disk, cacheVars,
                    LAST_JOB_PROOF, gateVars, doclingCfg, overrides, installation,
                    CAPABILITIES_CACHE, resolved, probes, session, resets, callVars >>

\* a reset that forgets the counters
CacheAfterResetKeepsStats == << {}, CONVERTER_CACHE_STATS >>

\* reset_converter_cache: CONVERTER_CACHE.clear(), builds and hits back to 0
CacheAfterReset == << {}, [builds |-> 0, hits |-> 0] >>

\* reset_converter_cache()
ResetCache ==
    /\ pc = "ss_idle"
    /\ resets < MaxResets
    /\ CONVERTER_CACHE' = CacheAfterReset[1]
    /\ CONVERTER_CACHE_STATS' = CacheAfterReset[2]
    /\ session' = << >>
    /\ resets' = resets + 1
    /\ UNCHANGED << pc, linesRead, jobsAccepted, message, stdout, jobVars, disk,
                    LAST_JOB_PROOF, gateVars, resolveVars, pymupdfModules, probes, callVars >>

SessionNext == ProbeWorker \/ ResolveAndGet \/ MachineChanges \/ ResetCache

SessionSpec == SessionInit /\ [][SessionNext]_vars

\* ------------------------------------ build_converter_cache_key on its own
\* Jobs of one process, each with its own docling configuration file (the
\* doclingConfig of the job command), profile and device override: the settings
\* are resolved and their cache key is built.  Profile and backend names are
\* whatever the configuration file says; a name may contain "|".
MaxKeyed == 2

KeyConfigA ==
    DoclingConfig("p", Null,
                  << ProfileCfg("p", "dlparse_v2", "fast", Null, Null, Null, 0),
                     ProfileCfg("p|q", "r", "fast", Null, Null, Null, 0) >>, Null)
KeyConfigB ==
    DoclingConfig("p", Null,
                  << ProfileCfg("p", "q|r", "fast", Null, Null, Null, 0),
                     ProfileCfg("t", "dlparse_v2", "accurate", "True", "True", "True", 1) >>, Null)
KeyConfigs == {KeyConfigA, KeyConfigB}
KeyProfileOverrides == {Null, "p|q", "t"}
KeyDeviceOverrides == {Null, "cpu"}
KeyInstallations == {Installation({}, << >>, << >>), EnvInstallation}

KeyInit ==
    /\ pc = "ck_idle"
    /\ linesRead = 0
    /\ message = NoArgs
    /\ jobsAccepted = 0
    /\ stdout = << >>
    /\ args = NoArgs
    /\ meta = NoRecord
    /\ loc = NoLoc
    /\ metaFile = [d \in DocIds |-> NoRecord]
    /\ outFiles = [d \in DocIds |-> NoFiles]
    /\ CONVERTER_CACHE = {}
    /\ CONVERTER_CACHE_STATS = [builds |-> 0, hits |-> 0]
    /\ LAST_JOB_PROOF = Null
    /\ gatesCfg = BareCfg
    /\ gateMetrics = ZeroMetrics
    /\ gateVerdict = NoVerdict
    /\ doclingCfg = EnvDoclingConfig
    /\ overrides = NoRequest
    /\ hardware \in Machines
    /\ installation \in KeyInstallations
    /\ CAPABILITIES_CACHE = NoCapabilities
    /\ resolved = JobSettings(Null)
    /\ pymupdfModules = EnvModules
    /\ probes = << >>
    /\ session = << >>
    /\ resets = 0
    /\ CallsIdle

\* settings = resolve_docling_settings(docling_config, profile_override,
\* device_override); key = build_converter_cache_key(settings)
BuildKey ==
    /\ pc = "ck_idle"
    /\ Len(keyed) < MaxKeyed
    /\ \E docling_config \in KeyConfigs, profile_override \in KeyProfileOverrides,
          device_override \in KeyDeviceOverrides :
        LET info == get_torch_info(hardware)
            capabilities == get_docling_capabilities(CAPABILITIES_CACHE, installation, info)
            settings == resolve_docling_settings(docling_config, profile_override,
                                                 device_override, info, capabilities)
        IN  /\ ~settings.raised
            /\ doclingCfg' = docling_config
            /\ overrides' = Request(profile_override, device_override)
            /\ resolved' = settings
            /\ CAPABILITIES_CACHE' = capabilities
            /\ keyed' = Append(keyed, [settings |-> settings,
                                       key |-> build_converter_cache_key(settings)])
    /\ UNCHANGED << pc, linesRead, jobsAccepted, message, stdout, jobVars, disk, cacheVars,
                    LAST_JOB_PROOF, gateVars, hardware, installation, sessionVars,
                    pfCfg, pfFile, preflight >>

KeyNext == BuildKey

KeySpec == KeyInit /\ [][KeyNext]_vars

\* ------------------------------------------------ run_pdf_preflight on its own
\* One call for every preflight configuration and PDF file below: up to
\* PfPages pages with the texts of PageTexts, sampling that works or raises, a
\* fallback that counts or raises.
PfPages == 2

PageTexts == {<< >>, << " " >>, << "x" >>, << "x", " ", "x" >>}
SamplePagesValues == {-1, 0, 1, 2}
MinTextCharsValues == {0, 1, 3}
MinAvgValues == {Fraction(0, 1), Fraction(1, 2), Fraction(1, 1), Fraction(3, 2)}
SampleErrors == {Null, "", "no pdfium"}
TextOpsValues == {0, 1, 3}

PreflightInit ==
    /\ pc = "pf_call"
    /\ linesRead = 0
    /\ message = NoArgs
    /\ jobsAccepted = 0
    /\ stdout = << >>
    /\ args = NoArgs
    /\ meta = NoRecord
    /\ loc = NoLoc
    /\ metaFile = [d \in DocIds |-> NoRecord]
    /\ outFiles = [d \in DocIds |-> NoFiles]
    /\ CONVERTER_CACHE = {}
    /\ CONVERTER_CACHE_STATS = [builds |-> 0, hits |-> 0]
    /\ LAST_JOB_PROOF = Null
    /\ gatesCfg = BareCfg
    /\ gateMetrics = ZeroMetrics
    /\ gateVerdict = NoVerdict
    /\ doclingCfg = EnvDoclingConfig
    /\ overrides = NoRequest
    /\ hardware = EnvTorch
    /\ installation = EnvInstallation
    /\ CAPABILITIES_CACHE = NoCapabilities
    /\ resolved = JobSettings(Null)
    /\ pymupdfModules = EnvModules
    /\ probes = << >>
    /\ session = << >>
    /\ resets = 0
    /\ keyed = << >>
    /\ \E enabled \in BOOLEAN, samplePages \in SamplePagesValues,
          minTextChars \in MinTextCharsValues, minAvg \in MinAvgValues :
          pfCfg = PreflightCfg(enabled, samplePages, minTextChars, minAvg)
    /\ \E n \in 0..PfPages :
          \E pages \in [1..n -> PageTexts], sampleError \in SampleErrors,
             textOps \in TextOpsValues, readRaises \in BOOLEAN :
             /\ readRaises => textOps = 0
             /\ pfFile = PdfFile(pages, sampleError, textOps, readRaises)
    /\ preflight = AutoPass(Null)

\* preflight = run_pdf_preflight(args.input, docling_config)
RunPreflight ==
    /\ pc = "pf_call"
    /\ preflight' = run_pdf_preflight(pfCfg, pfFile)
    /\ pc' = "pf_return"
    /\ UNCHANGED << linesRead, jobsAccepted, message, stdout, jobVars, disk, cacheVars,
                    LAST_JOB_PROOF, gateVars, resolveVars, sessionVars, keyed, pfCfg, pfFile >>

PreflightNext == RunPreflight

PreflightSpec == PreflightInit /\ [][PreflightNext]_vars

\* ------------------------------------- the worker without the layout module
\* The worker loop on a machine where pymupdf.layout imports or does not,
\* under the gate configuration with the page ceiling.
LayoutModuleSets == {EnvModules, EnvModules \ {"pymupdf.layout"}}

LayoutInit ==
    /\ pc = "start"
    /\ linesRead = 0
    /\ message = NoArgs
    /\ jobsAccepted = 0
    /\ stdout = << >>
    /\ args = NoArgs
    /\ meta = NoRecord
    /\ loc = NoLoc
    /\ metaFile = [d \in DocIds |-> NoRecord]
    /\ outFiles = [d \in DocIds |-> NoFiles]
    /\ CONVERTER_CACHE = {}
    /\ CONVERTER_CACHE_STATS = [builds |-> 0, hits |-> 0]
    /\ LAST_JOB_PROOF = Null
    /\ gatesCfg = CeilingCfg
    /\ gateMetrics = ZeroMetrics
    /\ gateVerdict = NoVerdict
    /\ CallsIdle
    /\ doclingCfg = EnvDoclingConfig
    /\ overrides = NoRequest
    /\ hardware = EnvTorch
    /\ installation = EnvInstallation
    /\ CAPABILITIES_CACHE = NoCapabilities
    /\ resolved = JobSettings(Null)
    /\ pymupdfModules \in LayoutModuleSets
    /\ probes = << >>
    /\ session = << >>
    /\ resets = 0

LayoutSpec == LayoutInit /\ [][Next]_vars

\* ------------------------------------------------------------ properties
\* the variables a line may change besides linesRead, message and pc
loopState == << stdout, jobsAccepted, jobVars, disk, cacheVars, LAST_JOB_PROOF >>

\* a step of the loop that reads a line
ReadsLine == linesRead' = linesRead + 1

\* positions on standard output of the events of accepted job n
EventsOf(n) == {i \in DOMAIN stdout : stdout[i].seq = n}
ProgressOf(n) == {i \in EventsOf(n) : stdout[i].event = "progress"}
ResultsOf(n) == {i \in EventsOf(n) : stdout[i].event = "result"}

\* the progress events of accepted job n, in the order of emission
IsProgressOf(n, line) == line.event = "progress" /\ line.seq = n
JobProgress(n) == SelectSeq(stdout, LAMBDA line : IsProgressOf(n, line))

\* the job in flight has left run_conversion, by return or by exception
JobReturned == pc = "loop_result"
JobEnded == pc \in {"loop_result", "crashed"}

\* C1: a line that is blank, is not valid JSON, parses to a JSON value that is
\* no object, or is an object whose type is none of job, capabilities and
\* shutdown emits no event and changes no state, and the loop stays at its
\* read position for the next line.
C1_UnusableLines == BlankLines \cup GarbageLines \cup ValueLines \cup OtherTypeLines

C1_UnusableLineChangesNothing ==
    [][(ReadsLine /\ message' \in C1_UnusableLines)
          => (pc' = "read" /\ UNCHANGED loopState)]_vars

\* an unparsable line was skipped after a job had run to its result event
C1_Witness ==
    /\ pc = "read"
    /\ message \in GarbageLines
    /\ jobsAccepted = 1
    /\ ResultsOf(1) # {}

\* C2 (as the specification states it): every accepted job gets exactly one
\* result event with its job id, after all of its progress events and before
\* any event of a later job; the job is over when the loop is back at its read
\* position, has ended, or a later job was accepted.
C2_JobOver(n) == n < jobsAccepted \/ pc \in {"read", "done", "crashed"}

C2_ExactlyOneResultPerJob ==
    \A n \in 1..jobsAccepted :
        /\ C2_JobOver(n) => Cardinality(ResultsOf(n)) = 1
        /\ \A r \in ResultsOf(n) :
            /\ \A i \in ProgressOf(n) : i < r /\ stdout[i].jobId = stdout[r].jobId
            /\ \A i \in DOMAIN stdout : stdout[i].seq > n => r < i

\* C3 (as the specification states it): a job command that lacks, or has an
\* empty value for, any one of jobId, docId, input, dataDir or gates is ignored.
C3_AnyMissingFieldIgnored ==
    [][(/\ ReadsLine
        /\ message'.type = "job"
        /\ \E f \in RequiredFields : Falsy(message'[f]))
          => (pc' = "read" /\ UNCHANGED loopState)]_vars

\* C3 (amended): a job command that lacks, or has an empty value for, docId,
\* input, dataDir or gates is ignored: the orchestrator is not run, no event is
\* emitted and the loop stays at its read position; a command that lacks only
\* jobId is accepted and runs under its docId as job id.
C3_MissingFieldIgnored ==
    [][(ReadsLine /\ message'.type = "job")
          => /\ (\E f \in RequiredFields \ {"jobId"} : Falsy(message'[f]))
                    => (pc' = "read" /\ UNCHANGED loopState)
             /\ (\A f \in RequiredFields \ {"jobId"} : ~Falsy(message'[f]))
                    => /\ pc' = "rc_enter"
                       /\ args' = message'
                       /\ loc'.job_id = IF Falsy(message'.jobId)
                                        THEN message'.docId ELSE message'.jobId]_vars

\* a job command without input was read first and left the worker as it was
C3_Witness ==
    /\ pc = "read"
    /\ linesRead = 1
    /\ message.type = "job"
    /\ Falsy(message.input)
    /\ ~Falsy(message.jobId)
    /\ jobsAccepted = 0
    /\ Len(stdout) = 1

\* C4 (as the specification states it): every accepted job ends with a record
\* at exports/<docId>/meta.json that this job wrote and whose status is SUCCESS
\* or FAILED, whatever failure occurred.
C4_EveryJobLeavesARecord ==
    JobEnded => /\ metaFile[args.docId].seq = loc.seq
                /\ metaFile[args.docId].status \in {"SUCCESS", "FAILED"}

\* C5 (as the specification states it): an exception raised inside the try
\* block is caught for every gate configuration that loads: the record becomes
\* FAILED with exitCode 1 and WORKER_EXCEPTION and the flow goes on to persist
\* it and return 1.
C5_ExceptionIsCaught ==
    [][pc = "rc_except"
          => /\ pc' = "rc_fail_write"
             /\ meta'.status = "FAILED"
             /\ meta'.exitCode = 1
             /\ meta'.failure = "WORKER_EXCEPTION"]_vars

\* C6: when preflight fails for a PDF input the job goes directly to FAILED
\* with failure code NO_TEXT_LAYER and exit code 2: no CONVERT event is emitted,
\* the flow is nowhere but at the write of the record or back in the loop with
\* return value 2 and the record persisted, and no step of such a job touches
\* the engine cache or its hit and build counters.
C6_PreflightFailed == args.type = "job" /\ meta.preflight = "failed"

C7_VerdictStored == args.type = "job" /\ meta.metrics.pages > 0

C7_EntersWriteOutputs ==
    \E i \in ProgressOf(loc.seq) : stdout[i].stage = "WRITE_OUTPUTS"

C7_WroteAFile ==
    outFiles[args.docId].md = loc.seq \/ outFiles[args.docId].json = loc.seq

C7_OutputsOnlyIfGatesPassed ==
    args.type = "job"
      => /\ (C7_EntersWriteOutputs \/ C7_WroteAFile) => meta.passed
         /\ (C7_VerdictStored /\ ~meta.passed)
               => /\ ~C7_EntersWriteOutputs
                  /\ ~C7_WroteAFile
                  /\ meta.outputs = NullOutputs
                  /\ meta.status = "FAILED"
                  /\ JobReturned => /\ loc.ret = 0
                                    /\ metaFile[args.docId] = meta
                                    /\ metaFile[args.docId].exitCode = 0

\* a PyMuPDF4LLM job returned after its document failed the gates
C7_Witness ==
    /\ JobReturned
    /\ C7_VerdictStored
    /\ ~meta.passed
    /\ loc.engine = ENGINE_PYMUPDF4LLM
    /\ metaFile[args.docId].status = "FAILED"

\* C8: with a positive limits.maxPages and a page count above it, the record
\* of the job is FAILED and its failedGates hold exactly one LIMIT_MAX_PAGES
\* entry with actual = page count and expected = maxPages, whatever rules the
\* configuration declares; with a page count <= maxPages, or maxPages 0 or
\* absent, failedGates hold no such entry.  It holds for the record in memory
\* and for every record on disk.
C8_CeilingEntries(record) ==
    {i \in DOMAIN record.failedGates : record.failedGates[i].code = "LIMIT_MAX_PAGES"}

C8_Ceiling(record) ==
    IF /\ gatesCfg.hasLimits /\ gatesCfg.hasMaxPages /\ gatesCfg.maxPages > 0
       /\ record.metrics.pages > gatesCfg.maxPages
    THEN /\ Cardinality(C8_CeilingEntries(record)) = 1
         /\ \A i \in C8_CeilingEntries(record) :
               /\ record.failedGates[i].actual = record.metrics.pages
               /\ record.failedGates[i].expected = gatesCfg.maxPages
         /\ ~record.passed
         /\ record.status = "FAILED"
    ELSE C8_CeilingEntries(record) = {}

C8_PageCeiling ==
    /\ meta.metrics.pages > 0 => C8_Ceiling(meta)
    /\ \A d \in DocIds : metaFile[d].metrics.pages > 0 => C8_Ceiling(metaFile[d])

\* two pages under a ceiling of one, beside a FAIL rule that passes, a WARN rule
\* that fails and a disabled rule
C8_Witness ==
    /\ JobReturned
    /\ gatesCfg = CeilingCfg
    /\ metaFile[args.docId].seq = loc.seq
    /\ metaFile[args.docId].metrics.pages = 2
    /\ metaFile[args.docId].failedGates = << LimitEntry(2, 1) >>

\* C9: the percentages of the progress events of a job are within 0..100 and
\* never decrease from an event to a later one, on every path.  JobProgress(n)
\* is the sequence of the progress events of job n in the order of emission,
\* so that no decrease between neighbours is no decrease between any two.
C9_ProgressMonotone ==
    \A n \in 1..jobsAccepted :
        LET events == JobProgress(n) IN
        /\ \A k \in DOMAIN events : events[k].progress \in 0..100
        /\ \A k \in 1..(Len(events) - 1) :
              events[k].progress <= events[k + 1].progress

\* a PyMuPDF text job went through the page loop of the largest document
C9_Witness ==
    /\ JobReturned
    /\ loc.engine = ENGINE_PYMUPDF_TEXT
    /\ loc.total_pages = MaxPages
    /\ loc.index = MaxPages
    /\ loc.ret = 0

\* C10: the stages of the progress events of a job follow the pipeline order
\* INIT, PREFLIGHT, CONVERT, EXPORT, METRICS, GATES, WRITE_OUTPUTS and never go
\* backwards (the page events of the PyMuPDF flows stand at CONVERT, EXPORT_JSON
\* at EXPORT); a terminal event (DONE or FAILED) carries 100, nothing of the job
\* but its result event follows it, and a job that returned has exactly one.
C10_Rank(stage) ==
    CASE stage = "INIT" -> 1
      [] stage = "PREFLIGHT" -> 2
      [] stage \in {"CONVERT", "EXTRACT_PYMUPDF", "EXTRACT_PYMUPDF4LLM"} -> 3
      [] stage \in {"EXPORT", "EXPORT_JSON"} -> 4
      [] stage = "METRICS" -> 5
      [] stage = "GATES" -> 6
      [] stage = "WRITE_OUTPUTS" -> 7
      [] stage \in {"DONE", "FAILED"} -> 8
      [] OTHER -> 0

C10_Terminals(events) ==
    {k \in DOMAIN events : events[k].stage \in {"DONE", "FAILED"}}

C12_ReaderSeesWholeRecord ==
    \A d \in DocIds : metaFile[d].status # "EMPTY"

\* C13 (as the specification states it): once the terminal progress event of a
\* job (DONE or FAILED, 100) is on standard output, the final record of that
\* job is on disk.
C13_RecordOnDiskAtTerminalEvent ==
    (args.type = "job" /\ \E i \in ProgressOf(loc.seq) : stdout[i].progress = 100)
      => /\ metaFile[args.docId].seq = loc.seq
         /\ metaFile[args.docId].status \in {"SUCCESS", "FAILED"}

\* C14: a shutdown command ends the loop: run_worker_loop returns 0 (pc
\* "done"), the line emits no event and changes no state, and the worker takes
\* no step afterwards, so no later command is processed and no later event is
\* emitted.  End of input ends the loop the same way.
C14_ShutdownEndsLoop ==
    [][/\ (ReadsLine /\ message' \in ShutdownLines)
             => (pc' = "done" /\ UNCHANGED loopState)
       /\ (pc = "read" /\ pc' = "done" /\ ~ReadsLine)
             => UNCHANGED << loopState, linesRead, message >>
       /\ pc # "done"]_vars

\* the loop ended at a shutdown command with input left unread
C14_Witness ==
    /\ pc = "done"
    /\ message \in ShutdownLines
    /\ linesRead < MaxLines

\* C15: the worker emits exactly one ready event, at startup: before it nothing
\* is on standard output and no line was read, after it the ready event is the
\* first line of standard output and the only ready event; this holds whether
\* the prewarm built a converter or failed, and the event carries the prewarm
\* summary exactly when the prewarm built the converter.
C15_ReadyOnceAtStartup ==
    /\ [](IF pc = "start"
          THEN stdout = << >> /\ linesRead = 0 /\ jobsAccepted = 0
          ELSE /\ Len(stdout) >= 1
               /\ stdout[1].json /\ stdout[1].event = "ready"
               /\ \A i \in DOMAIN stdout : stdout[i].event = "ready" => i = 1)
    /\ [][pc = "start"
            => /\ Len(stdout') = 1
               /\ stdout'[1].event = "ready"
               /\ stdout'[1].prewarm = (CONVERTER_CACHE' # {})
               /\ stdout'[1].prewarm = (CONVERTER_CACHE_STATS'.builds = 1)]_vars

\* the prewarm failed, the ready event came without summary, a job ran after it
C15_Witness ==
    /\ Len(stdout) > 1
    /\ stdout[1].event = "ready"
    /\ ~stdout[1].prewarm
    /\ jobsAccepted = 1

\* C16 (as the specification states it): the lastJob field of a capabilities
\* event is the proof of the job processed most recently before it, whatever
\* engine ran that job, and is null only if no job has been processed.
C16_ResultsBefore(i) == {r \in 1..(i - 1) : stdout[r].event = "result"}

C16_LastJobIsMostRecentJob ==
    \A i \in DOMAIN stdout :
        stdout[i].event = "capabilities"
          => IF C16_ResultsBefore(i) = {}
             THEN stdout[i].lastJob = Null
             ELSE LET last == CHOOSE r \in C16_ResultsBefore(i) :
                                  \A q \in C16_ResultsBefore(i) : q <= r
                  IN  stdout[i].lastJob = stdout[last].metaPath.doc

\* C17 (as the specification states it): every line on standard output is one
\* JSON value, a ready, progress, result or capabilities event.
C17_StdoutIsJsonLines ==
    \A i \in DOMAIN stdout :
        /\ stdout[i].json
        /\ stdout[i].event \in {"ready", "progress", "result", "capabilities"}

\* ------------------------------------------- properties of evaluate_gates
\* the rules given to the call, the metric value a rule is about, and an
\* enabled rule: one whose "enabled" key is present and true
GateRulesGiven == gatesCfg.gates
GateActual(gate) ==
    IF gate.metric \in DOMAIN gateMetrics THEN gateMetrics[gate.metric] ELSE 0
RuleIsEnabled(gate) == gate.hasEnabled /\ gate.enabled

\* the operators whose comparison is true for a value below, at and above the
\* threshold
PassingOps(actual, threshold) ==
    IF actual < threshold THEN {"<", "<=", "!="}
    ELSE IF actual = threshold THEN {">=", "<=", "=="}
    ELSE {">", ">=", "!="}

\* C18: evaluate_gates returns passed = true iff no enabled rule of severity
\* FAIL has a false comparison; failedGates holds exactly the enabled FAIL rules
\* whose comparison is false, each with the code, the actual value, the operator
\* and the threshold of the rule; an enabled rule of another severity never
\* appears in failedGates.
C18_Failing ==
    {i \in DOMAIN GateRulesGiven :
        /\ RuleIsEnabled(GateRulesGiven[i])
        /\ GateRulesGiven[i].severity = "FAIL"
        /\ GateRulesGiven[i].op
              \notin PassingOps(GateActual(GateRulesGiven[i]), GateRulesGiven[i].threshold)}

C18_VerdictFromFailRules ==
    pc = "eg_return"
      => /\ gateVerdict.passed = (C18_Failing = {})
         /\ Len(gateVerdict.failed) = Cardinality(C18_Failing)
         /\ \A i \in C18_Failing :
              \E k \in DOMAIN gateVerdict.failed :
                 gateVerdict.failed[k] =
                    [code |-> GateRulesGiven[i].code,
                     actual |-> GateActual(GateRulesGiven[i]),
                     expectedOp |-> GateRulesGiven[i].op,
                     expected |-> GateRulesGiven[i].threshold]
         /\ \A k \in DOMAIN gateVerdict.failed :
              \E i \in C18_Failing : gateVerdict.failed[k].code = GateRulesGiven[i].code
         /\ \A i \in DOMAIN GateRulesGiven :
              GateRulesGiven[i].severity # "FAIL"
                => \A k \in DOMAIN gateVerdict.failed :
                      gateVerdict.failed[k].code # GateRulesGiven[i].code

\* an enabled WARN rule and an enabled FAIL rule both compared false: the
\* verdict is failed with the FAIL rule alone
C18_Witness ==
    /\ pc = "eg_return"
    /\ Len(GateRulesGiven) = 2
    /\ RuleIsEnabled(GateRulesGiven[1]) /\ GateRulesGiven[1].severity = "WARN"
    /\ RuleIsEnabled(GateRulesGiven[2]) /\ GateRulesGiven[2].severity = "FAIL"
    /\ \A k \in DOMAIN gateVerdict.evaluated : ~gateVerdict.evaluated[k].passed
    /\ ~gateVerdict.passed
    /\ Len(gateVerdict.failed) = 1

\* C19: evaluatedGates has exactly one entry per enabled rule and none for a
\* disabled rule or a rule without "enabled" key, in the order of declaration;
\* failedGates is an order-preserving subsequence of it; a metric missing from
\* the metric set is evaluated as 0.
C19_EnabledRules == SelectSeq(GateRulesGiven, LAMBDA gate : RuleIsEnabled(gate))
C19_FailedCodes == {gateVerdict.failed[k].code : k \in DOMAIN gateVerdict.failed}
C19_FailedAmongEvaluated ==
    SelectSeq(gateVerdict.evaluated, LAMBDA e : e.code \in C19_FailedCodes)

C19_EvaluatedMirrorsEnabledRules ==
    pc = "eg_return"
      => /\ Len(gateVerdict.evaluated) = Len(C19_EnabledRules)
         /\ \A k \in DOMAIN gateVerdict.evaluated :
              /\ gateVerdict.evaluated[k].code = C19_EnabledRules[k].code
              /\ gateVerdict.evaluated[k].op = C19_EnabledRules[k].op
              /\ gateVerdict.evaluated[k].metric \notin DOMAIN gateMetrics
                    => gateVerdict.evaluated[k].actual = 0
              /\ gateVerdict.evaluated[k].metric \in DOMAIN gateMetrics
                    => gateVerdict.evaluated[k].actual
                          = gateMetrics[gateVerdict.evaluated[k].metric]
         /\ Len(C19_FailedAmongEvaluated) = Len(gateVerdict.failed)
         /\ \A k \in DOMAIN gateVerdict.failed :
              gateVerdict.failed[k].code = C19_FailedAmongEvaluated[k].code

\* a rule without "enabled" key in front of an enabled rule that fails on a
\* missing metric
C19_Witness ==
    /\ pc = "eg_return"
    /\ Len(GateRulesGiven) = 2
    /\ ~GateRulesGiven[1].hasEnabled
    /\ "pages" \notin DOMAIN gateMetrics
    /\ Len(gateVerdict.evaluated) = 1
    /\ gateVerdict.evaluated[1].code = GateRulesGiven[2].code
    /\ gateVerdict.evaluated[1].actual = 0
    /\ Len(gateVerdict.failed) = 1

\* C20: each of the six operators is the exact relation: >=, <= and == pass at
\* the threshold, >, < and != fail at it, and one unit below or above it the
\* result is the one of the relation; evaluate_gates raises ValueError, and
\* returns no verdict, exactly when an enabled rule has another operator; a
\* disabled rule with such an operator is skipped.
C20_ExactComparisons ==
    /\ pc \in {"eg_return", "eg_raised"}
         => /\ (pc = "eg_raised")
                 = (\E i \in DOMAIN GateRulesGiven :
                       /\ RuleIsEnabled(GateRulesGiven[i])
                       /\ GateRulesGiven[i].op \notin {">", ">=", "<", "<=", "==", "!="})
            /\ gateVerdict.raised = (pc = "eg_raised")
    /\ pc = "eg_return"
         => \A k \in DOMAIN gateVerdict.evaluated :
               LET e == gateVerdict.evaluated[k] IN
               /\ e.op \in {">", ">=", "<", "<=", "==", "!="}
               /\ e.actual \in {0, e.threshold - 1, e.threshold, e.threshold + 1}
               /\ e.passed = (e.op \in PassingOps(e.actual, e.threshold))

\* a disabled rule with an unsupported operator was skipped and >= passed at
\* exactly the threshold
C20_Witness ==
    /\ pc = "eg_return"
    /\ Len(GateRulesGiven) = 2
    /\ GateRulesGiven[1].hasEnabled /\ ~GateRulesGiven[1].enabled
    /\ GateRulesGiven[1].op = "~="
    /\ Len(gateVerdict.evaluated) = 1
    /\ gateVerdict.evaluated[1].op = ">="
    /\ gateVerdict.evaluated[1].actual = gateVerdict.evaluated[1].threshold
    /\ gateVerdict.evaluated[1].passed

\* C21 (as the specification states it): a job whose gate configuration has an
\* enabled rule with an unsupported operator ends with the error raised out of
\* the orchestrator: once the job has reached gate evaluation, no
\* FAILED / WORKER_EXCEPTION record is built or persisted for it and no result
\* event is emitted for it.
C21_ReachedGatesThatRaise ==
    /\ args.type = "job"
    /\ \E i \in ProgressOf(loc.seq) : stdout[i].stage = "GATES"
    /\ evaluate_gates(ZeroMetrics, gatesCfg).raised

C21_UnsupportedOperatorIsFatal ==
    C21_ReachedGatesThatRaise
      => /\ meta.failure # "WORKER_EXCEPTION"
         /\ metaFile[args.docId].seq # loc.seq
         /\ ResultsOf(loc.seq) = {}

\* ------------------------------------ properties of resolve_docling_settings
ResolveCalled == pc \in {"rs_return", "rs_raised"}
DeclaredProfiles == {doclingCfg.profiles[i].name : i \in DOMAIN doclingCfg.profiles}
Given(value) == value \notin {Null, ""}

\* C22: the profile resolve selects is the explicit override, else the
\* configured default (the key defaultProfile, or without it the key profile),
\* else the first declared profile, else the name "digital-balanced"; resolve
\* raises, and builds no settings, exactly when that name is not among the
\* declared profiles, as for an unknown explicit override.
C22_ExpectedProfile ==
    IF Given(overrides.profile_override) THEN overrides.profile_override
    ELSE IF Given(doclingCfg.defaultProfile) THEN doclingCfg.defaultProfile
    ELSE IF Given(doclingCfg.profile) THEN doclingCfg.profile
    ELSE IF doclingCfg.profiles # << >> THEN doclingCfg.profiles[1].name
    ELSE "digital-balanced"

C22_ProfilePrecedence ==
    ResolveCalled
      => /\ (pc = "rs_raised") = (C22_ExpectedProfile \notin DeclaredProfiles)
         /\ resolved.raised = (pc = "rs_raised")
         /\ pc = "rs_raised" => ~CAPABILITIES_CACHE.probed
         /\ pc = "rs_return"
              => /\ resolved.profile = C22_ExpectedProfile
                 /\ resolved.requested_settings.profile = C22_ExpectedProfile

\* an override won over a configured default that is itself undeclared
C22_Witness ==
    /\ pc = "rs_return"
    /\ overrides.profile_override = "b"
    /\ doclingCfg.defaultProfile = "zz"
    /\ resolved.profile = "b"

\* C23: the requested device is the explicit override unless that is absent
\* or blank, else the default of the configuration, else auto, where letter case
\* and surrounding blanks are ignored and any value other than cpu and cuda is
\* auto; the effective device is cpu for cpu, cuda for auto and for cuda iff the
\* hardware is available and cpu otherwise, with a reason in the case of cuda;
\* the selection never makes resolve raise.
C23_Normal(value) ==
    IF value \in {"cuda", "CUDA "} THEN "cuda" ELSE IF value = "cpu" THEN "cpu" ELSE "auto"

C23_ExpectedRequested ==
    IF overrides.device_override \notin {Null, "", " "}
    THEN C23_Normal(overrides.device_override)
    ELSE IF doclingCfg.defaultDevice # Null THEN C23_Normal(doclingCfg.defaultDevice)
    ELSE "auto"

HardwareAvailable == hardware.installed /\ hardware.cuda

C23_DeviceSelection ==
    /\ pc = "rs_raised" => C22_ExpectedProfile \notin DeclaredProfiles
    /\ pc = "rs_return"
         => /\ resolved.accelerator.requested_device = C23_ExpectedRequested
            /\ resolved.accelerator.effective_device =
                  (IF C23_ExpectedRequested = "cpu" THEN "cpu"
                   ELSE IF HardwareAvailable THEN "cuda" ELSE "cpu")
            /\ resolved.effective_settings.acceleratorEffective
                  = resolved.accelerator.effective_device
            /\ (resolved.accelerator.reason # Null)
                  = (C23_ExpectedRequested = "cuda" /\ ~HardwareAvailable)

\* an override asked for cuda on a machine whose torch has no CUDA: the device
\* is cpu, with the reason, and the settings were built
C23_Witness ==
    /\ pc = "rs_return"
    /\ overrides.device_override = "CUDA "
    /\ doclingCfg.defaultDevice = "cpu"
    /\ hardware = Torch(TRUE, FALSE)
    /\ resolved.accelerator.requested_device = "cuda"
    /\ resolved.accelerator.effective_device = "cpu"
    /\ resolved.accelerator.reason = "CUDA_NOT_AVAILABLE"

\* C24 (as the specification states it): when the requested device is cuda and
\* the hardware is not available, the fallback reasons of the resolved settings
\* (the list that is persisted and logged with the requested/effective pair)
\* hold a code for the downgrade, HARDWARE_NOT_AVAILABLE.
C24_DowngradeCodes == {"HARDWARE_NOT_AVAILABLE", "CUDA_NOT_AVAILABLE"}

C24_DowngradeInFallbackReasons ==
    (/\ pc = "rs_return"
     /\ resolved.accelerator.requested_device = "cuda"
     /\ ~HardwareAvailable)
      => /\ \E i \in DOMAIN resolved.fallback_reasons :
               resolved.fallback_reasons[i].code \in C24_DowngradeCodes
         /\ \E i \in DOMAIN resolved.effective_settings.fallbackReasons :
               resolved.effective_settings.fallbackReasons[i].code \in C24_DowngradeCodes

\* C25: when the snapshot lists a backend, the effective backend is listed: it
\* is the requested one if that is listed, with no backend fallback reason, and
\* otherwise the first listed of dlparse_v4, dlparse_v2, dlparse_v1, pypdfium2,
\* with the reason PDF_BACKEND_FALLBACK:<requested>-><effective>.
C25_Listed == {resolved.capabilities.pdfBackends[i] :
                  i \in DOMAIN resolved.capabilities.pdfBackends}

C25_Preferred ==
    IF "dlparse_v4" \in C25_Listed THEN "dlparse_v4"
    ELSE IF "dlparse_v2" \in C25_Listed THEN "dlparse_v2"
    ELSE IF "dlparse_v1" \in C25_Listed THEN "dlparse_v1"
    ELSE "pypdfium2"

C25_BackendReasons ==
    {i \in DOMAIN resolved.fallback_reasons :
        resolved.fallback_reasons[i].code = "PDF_BACKEND_FALLBACK"}

C25_EffectiveBackendIsListed ==
    (pc = "rs_return" /\ C25_Listed # {})
      => LET requested == resolved.requested_settings.pdfBackendRequested IN
         /\ resolved.capabilities = CAPABILITIES_CACHE
         /\ resolved.pdf_backend \in C25_Listed
         /\ resolved.effective_settings.pdfBackendEffective = resolved.pdf_backend
         /\ IF requested \in C25_Listed
            THEN resolved.pdf_backend = requested /\ C25_BackendReasons = {}
            ELSE /\ resolved.pdf_backend = C25_Preferred
                 /\ \E i \in C25_BackendReasons :
                       /\ resolved.fallback_reasons[i].requested = requested
                       /\ resolved.fallback_reasons[i].effective = resolved.pdf_backend

\* pypdfium2 was requested, the installation has dlparse_v1 and dlparse_v2 only
C25_Witness ==
    /\ pc = "rs_return"
    /\ resolved.requested_settings.pdfBackendRequested = "pypdfium2"
    /\ C25_Listed = {"dlparse_v1", "dlparse_v2"}
    /\ resolved.pdf_backend = "dlparse_v2"
    /\ C25_BackendReasons # {}

\* C26 (as the specification states it): when the snapshot lists a table mode,
\* the effective table mode is listed, and a TABLE_MODE_FALLBACK reason is
\* recorded only if the effective mode differs from the requested one.
C26_ListedModes == {resolved.capabilities.tableModes[i] :
                       i \in DOMAIN resolved.capabilities.tableModes}

C26_EffectiveTableModeIsListed ==
    (pc = "rs_return" /\ C26_ListedModes # {})
      => /\ resolved.table_structure_mode \in C26_ListedModes
         /\ \A i \in DOMAIN resolved.fallback_reasons :
               resolved.fallback_reasons[i].code = "TABLE_MODE_FALLBACK"
                 => resolved.table_structure_mode
                       # resolved.requested_settings.tableModeRequested

\* C27: in every resolved settings the effective device agrees with the
\* capability snapshot the same settings carry: it is cuda only if that
\* snapshot reports CUDA as available, whatever probes, resolutions and changes
\* of the machine came before.
C27_EffectiveDeviceAgreesWithSnapshot ==
    \A i \in DOMAIN session :
        session[i].settings.accelerator.effective_device = "cuda"
            => session[i].settings.capabilities.cudaAvailable = "True"

\* what a resolution gives the engine, and the reasons it recorded
EffectiveOf(settings) ==
    << settings.pdf_backend, settings.table_structure_mode, settings.do_cell_matching,
       settings.accelerator.effective_device, settings.fallback_reasons >>

\* C28: two resolutions with the same configuration, the same profile and
\* device override and the same capability snapshot give the same effective
\* backend, table mode, cell-matching flag and device and the same list of
\* fallback reasons, whatever happened between them.
C28_ResolveIsIdempotent ==
    \A i, j \in DOMAIN session :
        /\ session[i].request = session[j].request
        /\ session[i].settings.capabilities = session[j].settings.capabilities
        => EffectiveOf(session[i].settings) = EffectiveOf(session[j].settings)

\* C29: the probe is memoized once per process: every call after the first
\* returns a snapshot equal to the one the first call returned, so no later
\* call discovers anything anew.
C29_ProbeReturnsFirstSnapshot ==
    \A i \in DOMAIN probes : probes[i] = probes[1]

\* at least two calls of get_cached_converter, all with the same effective settings
C30_SameSettingsThroughout ==
    /\ Len(session) >= 2
    /\ \A i \in DOMAIN session : session[i].key = session[1].key

\* the calls before call i that had its key and whose build did not raise
BuiltBefore(i) ==
    {j \in 1..(i - 1) : session[j].key = session[i].key /\ ~session[j].raised}

\* C30: any sequence of calls of get_cached_converter builds the engine of a key
\* at most once with success: the build counter is the number of keys in the
\* cache (at most 1 when all calls have the same effective settings), every
\* call after the first build that succeeded returns wasCached = true without
\* building, and a call before it returns wasCached = false or raises.
C30_AtMostOneBuildPerKey ==
    /\ CONVERTER_CACHE_STATS.builds = Cardinality(CONVERTER_CACHE)
    /\ CONVERTER_CACHE = {session[i].key : i \in {j \in DOMAIN session : ~session[j].raised}}
    /\ C30_SameSettingsThroughout => CONVERTER_CACHE_STATS.builds <= 1
    /\ \A i \in DOMAIN session :
          IF BuiltBefore(i) # {}
          THEN session[i].wasCached /\ ~session[i].raised
          ELSE ~session[i].wasCached

\* two calls with the same effective settings after a change of the machine:
\* the first built the engine, the second got it from the cache
C30_Witness ==
    /\ C30_SameSettingsThroughout
    /\ session[1].settings.accelerator.cuda_available
          # session[2].settings.accelerator.cuda_available
    /\ ~session[1].raised
    /\ session[2].wasCached
    /\ CONVERTER_CACHE_STATS = [builds |-> 1, hits |-> 1]

\* C30 as stated: after two or more calls with identical effective settings the
\* build counter is 1 and every call after the first returned wasCached = true.
C30_BuiltOnceThenCached ==
    C30_SameSettingsThroughout
        => /\ CONVERTER_CACHE_STATS.builds = 1
           /\ \A i \in 2..Len(session) : session[i].wasCached

\* the eight fields the key is made of
KeyFields(settings) ==
    << settings.profile, settings.pdf_backend, settings.do_ocr, settings.do_table_structure,
       settings.table_structure_mode, settings.document_timeout_sec,
       settings.accelerator.effective_device, settings.do_cell_matching >>

\* C31: the cache key depends on the effective settings only and distinguishes
\* them: two settings have the same key exactly when they agree on profile,
\* backend, OCR flag, table-structure flag, table mode, timeout, effective
\* device and cell-matching flag, whatever was requested.
C31_KeyDistinguishesEffectiveSettings ==
    \A i, j \in DOMAIN keyed :
        (KeyFields(keyed[i].settings) = KeyFields(keyed[j].settings))
            <=> (keyed[i].key = keyed[j].key)

\* the call of run_pdf_preflight has returned
PreflightReturned == pc = "pf_return"

\* preflight is enabled and the sample size is positive
PreflightSamples == pfCfg.enabled /\ pfCfg.samplePages > 0

\* the pages preflight samples and the characters on them that are not spaces
SampledPages ==
    IF pfCfg.samplePages < Len(pfFile.pages) THEN pfCfg.samplePages ELSE Len(pfFile.pages)
SampledChars ==
    Cardinality({at \in (1..SampledPages) \X (1..3) :
                    /\ at[2] <= Len(pfFile.pages[at[1]])
                    /\ pfFile.pages[at[1]][at[2]] # " "})

\* total >= minTextChars and total / pages >= minTextCharsPerPageAvg, the
\* average being 0 over zero pages
MeetsThresholds(total, pages) ==
    /\ total >= pfCfg.minTextChars
    /\ IF pages > 0
       THEN total * pfCfg.minTextCharsPerPageAvg.den >= pfCfg.minTextCharsPerPageAvg.num * pages
       ELSE pfCfg.minTextCharsPerPageAvg.num <= 0

\* C32: preflight that is disabled or has a sample size <= 0 passes with zero
\* counts and no error; otherwise, when sampling succeeds, it passes iff the
\* characters sampled reach the configured minimum and their average per
\* sampled page reaches the configured average (0 over zero pages).
C32_PreflightVerdict ==
    PreflightReturned =>
        /\ ~PreflightSamples =>
              /\ preflight.passed
              /\ preflight.sample_pages = 0
              /\ preflight.text_chars = 0
              /\ preflight.text_chars_per_page_avg.num = 0
              /\ preflight.error = Null
        /\ (PreflightSamples /\ pfFile.sampleError = Null) =>
              /\ preflight.sample_pages = SampledPages
              /\ preflight.text_chars = SampledChars
              /\ preflight.passed <=> MeetsThresholds(SampledChars, SampledPages)
              /\ preflight.error = Null

\* sampling succeeded, the total reaches its minimum, the average does not:
\* preflight fails
C32_Witness ==
    /\ PreflightReturned
    /\ PreflightSamples
    /\ pfFile.sampleError = Null
    /\ SampledPages = 2
    /\ SampledChars >= pfCfg.minTextChars
    /\ pfCfg.minTextChars > 0
    /\ ~preflight.passed

\* C33: preflight is a chain of fallbacks that always returns: when sampling
\* raises, the count of the byte scan gets the same verdict over the configured
\* sample size, with the error of the sampling attached; when the byte scan
\* raises as well, preflight passes with zero counts and that error attached.
C33_PreflightFallbackChain ==
    (PreflightReturned /\ PreflightSamples /\ pfFile.sampleError # Null) =>
        /\ preflight.error = pfFile.sampleError
        /\ IF pfFile.readRaises
           THEN /\ preflight.passed
                /\ preflight.sample_pages = 0
                /\ preflight.text_chars = 0
                /\ preflight.text_chars_per_page_avg.num = 0
           ELSE /\ preflight.sample_pages = pfCfg.samplePages
                /\ preflight.text_chars = pfFile.textOps
                /\ preflight.passed <=> MeetsThresholds(pfFile.textOps, pfCfg.samplePages)

\* both paths raised under thresholds no count of zero meets: preflight passes
C33_Witness ==
    /\ PreflightReturned
    /\ PreflightSamples
    /\ pfFile.sampleError = "no pdfium"
    /\ pfFile.readRaises
    /\ pfCfg.minTextChars > 0
    /\ preflight.passed
    /\ preflight.error = "no pdfium"

C35_LayoutUnavailable ==
    /\ args.type = "job"
    /\ loc.engine = ENGINE_PYMUPDF4LLM
    /\ resolve_layout_mode(Null) = "layout"
    /\ "pymupdf.layout" \notin pymupdfModules

\* C35: a PyMuPDF4LLM job that needs the layout mode while the layout module
\* is unavailable never converts in standard mode: its record never names the
\* standard mode, it emits no extraction event, and once it has returned the
\* return value is 1 and the persisted record is FAILED with the failure code
\* PYMUPDF_LAYOUT_UNAVAILABLE.
C35_LayoutUnavailableFails ==
    C35_LayoutUnavailable
      => /\ meta.layoutMode # "standard"
         /\ \A i \in ProgressOf(loc.seq) : stdout[i].stage # "EXTRACT_PYMUPDF4LLM"
         /\ JobReturned
              => /\ loc.ret = 1
                 /\ metaFile[args.docId].status = "FAILED"
                 /\ metaFile[args.docId].exitCode = 1
                 /\ metaFile[args.docId].failure = "PYMUPDF_LAYOUT_UNAVAILABLE"

\* such a job has returned 0 with a persisted SUCCESS record in standard mode
C35_ConvertedInStandardMode ==
    /\ C35_LayoutUnavailable
    /\ JobReturned
    /\ loc.ret = 0
    /\ metaFile[args.docId].status = "SUCCESS"
    /\ metaFile[args.docId].layoutMode = "standard"
    /\ metaFile[args.docId].fallbackReasons = << "LAYOUT_IMPORT_FAILED" >>

\* the calls since the last reset that returned: their build did not raise
ReturnedCalls == {i \in DOMAIN session : ~session[i].raised}

\* C36: after any sequence of get_cached_converter and reset_converter_cache
\* calls the build counter is the number of entries of the cache and hits +
\* builds is the number of get_cached_converter calls that returned since the
\* last reset; no step but a reset removes an entry, and a reset empties the
\* cache and zeroes both counters.
C36_CountersMatchCache ==
    /\ [](/\ CONVERTER_CACHE_STATS.builds = Cardinality(CONVERTER_CACHE)
          /\ CONVERTER_CACHE_STATS.hits + CONVERTER_CACHE_STATS.builds
                = Cardinality(ReturnedCalls))
    /\ [][IF resets' # resets
          THEN /\ CONVERTER_CACHE' = {}
               /\ CONVERTER_CACHE_STATS' = [builds |-> 0, hits |-> 0]
          ELSE CONVERTER_CACHE \subseteq CONVERTER_CACHE']_vars

\* after a reset, one call has built an engine and the next got it from the cache
C36_Witness ==
    /\ resets = 1
    /\ Len(session) = 2
    /\ ~session[1].raised /\ ~session[1].wasCached
    /\ session[2].wasCached
    /\ Cardinality(CONVERTER_CACHE) = 1
    /\ CONVERTER_CACHE_STATS = [builds |-> 1, hits |-> 1]

\* call j comes after call i, has its key, and no call between them returned
\* with that key
NextAttempt(i, j) ==
    /\ i < j
    /\ session[j].key = session[i].key
    /\ \A k \in (i + 1)..(j - 1) : session[k].key = session[i].key => session[k].raised

\* C37: a call of get_cached_converter whose build raises leaves the cache and
\* both counters unchanged, and the next call with the same effective settings
\* builds again: it returns wasCached = false or raises too, never a cached engine.
C37_FailedBuildStoresNothing ==
    /\ [][(Len(session') = Len(session) + 1 /\ session'[Len(session')].raised)
            => /\ CONVERTER_CACHE' = CONVERTER_CACHE
               /\ CONVERTER_CACHE_STATS' = CONVERTER_CACHE_STATS
               /\ session'[Len(session')].key \notin CONVERTER_CACHE']_vars
    /\ [](\A i, j \in DOMAIN session :
            (session[i].raised /\ NextAttempt(i, j)) => ~session[j].wasCached)

\* the build of the first call raised; the second call, with the same key, built
C37_Witness ==
    /\ Len(session) = 2
    /\ session[1].raised
    /\ session[2].key = session[1].key
    /\ ~session[2].raised /\ ~session[2].wasCached
    /\ CONVERTER_CACHE = {session[2].key}
    /\ CONVERTER_CACHE_STATS = [builds |-> 1, hits |-> 0]

\* the ready event of the worker carries the settings of a prewarm that succeeded
PrewarmSucceeded == Len(stdout) >= 1 /\ stdout[1].event = "ready" /\ stdout[1].prewarm

\* the CONVERT events on standard output: one for every job that asked the
\* cache for its engine
ConvertEvents ==
    {i \in DOMAIN stdout : stdout[i].event = "progress" /\ stdout[i].stage = "CONVERT"}

\* C38: after a prewarm that succeeded, the docling jobs of the worker (same
\* configuration, no profile or device override, same hardware) get the
\* prewarmed engine from the cache: the cache holds the key of the default
\* settings only, the build counter stays 1, and the hit counter is 0 before
\* the first job has reached CONVERT, 1 once it has, and counts the jobs that
\* reached CONVERT thereafter.
C38_FirstJobHitsPrewarmedEngine ==
    PrewarmSucceeded
      => /\ CONVERTER_CACHE = {build_converter_cache_key(JobSettings(Null))}
         /\ CONVERTER_CACHE_STATS.builds = 1
         /\ CONVERTER_CACHE_STATS.hits = Cardinality(ConvertEvents)

\* the first docling job after a prewarm has got its engine from the cache
C38_Witness ==
    /\ PrewarmSucceeded
    /\ args.type = "job"
    /\ loc.engine = ENGINE_DOCLING
    /\ loc.seq = 1
    /\ ConvertEvents # {}
    /\ CONVERTER_CACHE_STATS = [builds |-> 1, hits |-> 1]

\* the progress event the job in flight emitted last
LastProgress == JobProgress(loc.seq)[Len(JobProgress(loc.seq))]

\* C39: when a job has returned, its terminal progress event agrees with the
\* record it persisted: the stage of the event is FAILED exactly when the
\* persisted status is FAILED, and DONE exactly when it is SUCCESS, on every
\* return path, a rejection by the quality gates included.
C39_TerminalEventAgreesWithRecord ==
    (args.type = "job" /\ JobReturned)
      => /\ LastProgress.stage \in {"DONE", "FAILED"}
         /\ LastProgress.stage = "FAILED" <=> metaFile[args.docId].status = "FAILED"
         /\ LastProgress.stage = "DONE" <=> metaFile[args.docId].status = "SUCCESS"

\* a job the quality gates rejected has returned: the event says DONE, the
\* persisted record FAILED
C39_DoneEventOverFailedRecord ==
    /\ args.type = "job"
    /\ JobReturned
    /\ LastProgress.stage = "DONE"
    /\ metaFile[args.docId].status = "FAILED"
    /\ metaFile[args.docId].stage = "FAILED"
    /\ ~metaFile[args.docId].passed
    /\ loc.ret = 0

\* the documents whose meta.json holds a whole record
PersistedDocs == {d \in DocIds : metaFile[d].status \notin {"ABSENT", "EMPTY"}}

\* both output paths of the record are set
HasOutputPaths(record) ==
    record.outputs.markdownPath # NoPath /\ record.outputs.jsonPath # NoPath

\* the exit codes of a record: 0, 1 or 2, 2 only after a preflight rejection,
\* SUCCESS only with 0
ExitCodeConsistent(record) ==
    /\ record.exitCode \in {0, 1, 2}
    /\ record.exitCode = 2 => record.preflight = "failed" /\ record.failure = "NO_TEXT_LAYER"
    /\ record.status = "SUCCESS" => record.exitCode = 0

\* the result event of the job that wrote the record carries its exit code
ResultMatches(record) ==
    \A i \in ResultsOf(record.seq) : stdout[i].exitCode = record.exitCode

\* C40: every persisted record is consistent and matches the result event:
\* its status is SUCCESS exactly when qualityGates.passed is true, exactly when
\* both output paths are set; the value run_conversion returned and the exit
\* code of the result event equal processing.exitCode, which is 0, 1 or 2,
\* with 2 only after a preflight rejection and SUCCESS only with 0.
C40_RecordConsistent ==
    \A d \in PersistedDocs :
        /\ metaFile[d].status = "SUCCESS" <=> metaFile[d].passed
        /\ metaFile[d].passed <=> HasOutputPaths(metaFile[d])
        /\ ExitCodeConsistent(metaFile[d])
        /\ ResultMatches(metaFile[d])
        /\ (JobReturned /\ args.docId = d) => loc.ret = metaFile[d].exitCode

\* a persisted record says FAILED by WORKER_EXCEPTION with exit code 1 while
\* its qualityGates.passed is true and its output paths are null
C40_FailedRecordWithPassedGates ==
    \E d \in PersistedDocs :
        /\ metaFile[d].status = "FAILED"
        /\ metaFile[d].failure = "WORKER_EXCEPTION"
        /\ metaFile[d].exitCode = 1
        /\ metaFile[d].passed
        /\ ~HasOutputPaths(metaFile[d])
        /\ ResultsOf(metaFile[d].seq) # {}

====
